---- MODULE Spec2Model ----
(***************************************************************************)
(* Verification model of the experiment control plane of AIFX013_VCR:      *)
(*   - EarlyStopping           (src/src/utils/callbacks.py)                *)
(*   - train()                 (src/06_train.py)                           *)
(*   - run_optimization()      (src/src/optimization/optuna_runner.py)     *)
(*   - train_wrapper()         (src/07_optimize.py, src/05_optimize.py)    *)
(*   - split_data()            (src/03_preprocess.py, 02_prepare_data.py)  *)
(*                                                                         *)
(* Optional values (Python None) are encoded as sequences of length <= 1:  *)
(* <<>> is None and <<v>> is the value v.                                   *)
(***************************************************************************)
EXTENDS Integers, Sequences, FiniteSets, TLC

None == <<>>
Some(v) == <<v>>
IsNone(o) == o = <<>>
Get(o) == o[1]

(***************************************************************************)
(* Bounds of the model.                                                    *)
(***************************************************************************)
MaxPatience == 3
MaxDelta == 1
MaxMetric == 3
MaxCalls == 6

MaxEpochs == 3
MaxAcc == 2
MaxTrainPatience == 2
MaxValBatches == 1
MaxRestarts == 2
MaxNTrials == 2
MaxStudyEpochs == 2
MaxStudyAcc == 0
MaxTotalTrials == 2
MaxRecords == 4
MaxStudyRestarts == 1

MaxMaxEpoch == 2
MaxLossEpoch == 2
MaxRegisters == 2      \* register calls in a behaviour
MaxClasses == 2

VARIABLES
    \* --- EarlyStopping (callbacks.py) ---
    early_stopping,   \* the EarlyStopping object (callbacks.py:30-40)
    metric_val,       \* argument of the latest EarlyStopping.__call__ (None before any)
    n_calls,          \* number of __call__ invocations so far
    streak,           \* observations since the monitor last took its best_score
                      \* (in train(): epochs of the run since then)
    \* --- files under the output directories ---
    disk,             \* dir -> [last, best]: contents of last.pt / best.pt (None = absent)
    \* --- one invocation of train() (06_train.py) ---
    pc,               \* position of train(): idle, loop, validated, reported, logged,
                      \* best_done, last_done, returned, pruned, failed
    output_dir,       \* train() argument
    trial,            \* train() argument: None or the trial number
    epochs,           \* config["training"]["epochs"]
    num_val_batches,  \* batches the validation loader yields in an epoch (line 227)
    start_epoch,      \* 06_train.py:139,149
    epoch,            \* loop variable of line 178
    val_acc,          \* validation accuracy of the current epoch
    best_val_acc,     \* 06_train.py:161,279
    best_epoch,       \* 06_train.py:162,280
    mlflow_step,      \* step of the latest mlflow.log_metrics call (None before any)
    result,           \* value returned by train() (None until it returns)
    \* --- history kept for the properties ---
    run_id,           \* identity of the model being trained by this invocation
    resume_ckpt,      \* the last.pt record train() loaded at start (None if absent)
    completed,        \* dir -> sequence of the epochs whose last.pt was written,
                      \* over all invocations
    prior_best,       \* dir -> best val_acc of those epochs (-1 if none): "all"
                      \* over all invocations, "run" over the latest invocation
    best_write,       \* the latest overwrite of best.pt: None or [val_acc, prior],
                      \* prior = best metric of the epochs completed before it
    restarts,         \* number of times the process was killed
    \* --- run_optimization() (optuna_runner.py) and the Optuna study ---
    storage,          \* run_optimization argument: None (in-memory) or a storage URL
    study_config,     \* study_config: [sampler, pruner] = the configured "type"s
    study,            \* None, or the created study's [sampler, pruner]
    n_trials,         \* study_config["n_trials"]
    study_trials,     \* study.trials: sequence of [number, state, value, last_step,
                      \* raised, uid]
    spc,              \* position of run_optimization(): off, optimizing, in_trial,
                      \* returned, raised
    i_trial,          \* trials started by the current study.optimize() call
    raised_exc,       \* exception that left run_optimization() (None if none)
    next_uid,         \* identities handed to the training runs so far
    done_before,      \* trials recorded COMPLETE by earlier invocations
    \* --- split_data() (03_preprocess.py, 02_prepare_data.py) ---
    records,          \* argument: sequence of [id, meta]
    ratios,           \* arguments <<train_ratio, val_ratio, test_ratio>> in percent
    group_by,         \* argument: None or a field name
    rng,              \* n -> RandomState(seed).permutation(n) for the call's seed
    split_out,        \* None before the call, then [raised, split]
    group_keys,       \* None before the call, then the groups array of line 161
    split_history,    \* the calls made so far: sequence of [script, out]
    \* --- SmoothModulationLoss (smooth_modulation.py) ---
    class_counts,     \* class_counts of the training set (dataset.py:91-100), or None
    criterion,        \* the SmoothModulationLoss object (None before construction)
    forward_out,      \* None, or the latest forward call: its arguments epoch and
                      \* targets, and raised, modulation, weights, weight_per_sample
    \* --- the factories (factories.py) ---
    registry,         \* factory -> its _registry dict, as the sequence of its
                      \* [name, cls] items in insertion order
    register_log,     \* the register calls made so far: sequence of [factory, name, cls]
    factory_out,      \* None, or the latest create call: its factory, name, cfg and
                      \* num_classes, and raised, instance
    \* --- train_wrapper() and the components of the run it starts ---
    hyperparams,      \* None, or the keyword arguments train_wrapper is called with
    wrapper_config,   \* None, or [script, config]: the config train_wrapper built
    components        \* None, or what train() built from that config

esVars == <<early_stopping, metric_val, n_calls, streak>>
trainVars == <<disk, pc, output_dir, trial, epochs, num_val_batches, start_epoch, epoch, val_acc,
               best_val_acc, best_epoch, mlflow_step, result, run_id, resume_ckpt,
               completed, prior_best, best_write, restarts>>
studyVars == <<storage, study_config, study, n_trials, study_trials, spc, i_trial, raised_exc,
               next_uid, done_before>>
splitVars == <<records, ratios, group_by, rng, split_out, group_keys, split_history>>
lossVars == <<class_counts, criterion, forward_out>>
factoryVars == <<registry, register_log, factory_out>>
wrapperVars == <<hyperparams, wrapper_config, components>>
vars == <<esVars, trainVars, studyVars, splitVars, lossVars, factoryVars, wrapperVars>>

(***************************************************************************)
(* EarlyStopping  (src/src/utils/callbacks.py)                             *)
(***************************************************************************)
\* EarlyStopping.__init__: counter 0, best_score None, early_stop False.
EarlyStopping__init__(patience, delta, mode) ==
    [patience |-> patience, delta |-> delta, mode |-> mode,
     counter |-> 0, best_score |-> None, early_stop |-> FALSE]

\* score = -metric_val if self.mode == "min" else metric_val
Score(mode, m) == IF mode = "min" THEN 0 - m ELSE m

\* Mutant: an improving observation clears the stop signal.
EarlyStopping__call__Unstop(self, m) ==
    LET score == Score(self.mode, m) IN
    IF IsNone(self.best_score)
    THEN [self EXCEPT !.best_score = Some(score)]
    ELSE IF score < Get(self.best_score) + self.delta
         THEN [self EXCEPT !.counter = self.counter + 1,
                           !.early_stop = (self.early_stop \/ self.counter + 1 >= self.patience)]
         ELSE [self EXCEPT !.best_score = Some(score), !.counter = 0, !.early_stop = FALSE]

\* Mutant: the patience test is off by one (counter > patience).
EarlyStopping__call__Late(self, m) ==
    LET score == Score(self.mode, m) IN
    IF IsNone(self.best_score)
    THEN [self EXCEPT !.best_score = Some(score)]
    ELSE IF score < Get(self.best_score) + self.delta
         THEN [self EXCEPT !.counter = self.counter + 1,
                           !.early_stop = (self.early_stop \/ self.counter + 1 > self.patience)]
         ELSE [self EXCEPT !.best_score = Some(score), !.counter = 0]

\* Mutant: an improving observation resets the counter but is not stored.
EarlyStopping__call__KeepFirst(self, m) ==
    LET score == Score(self.mode, m) IN
    IF IsNone(self.best_score)
    THEN [self EXCEPT !.best_score = Some(score)]
    ELSE IF score < Get(self.best_score) + self.delta
         THEN [self EXCEPT !.counter = self.counter + 1,
                           !.early_stop = (self.early_stop \/ self.counter + 1 >= self.patience)]
         ELSE [self EXCEPT !.counter = 0]

\* EarlyStopping.__call__(metric_val, model); save_checkpoint only traces.
EarlyStopping__call__(self, m) ==
    LET score == Score(self.mode, m) IN
    IF IsNone(self.best_score)
    THEN [self EXCEPT !.best_score = Some(score)]
    ELSE IF score < Get(self.best_score) + self.delta
         THEN [self EXCEPT !.counter = self.counter + 1,
                           !.early_stop = (self.early_stop \/ self.counter + 1 >= self.patience)]
         ELSE [self EXCEPT !.best_score = Some(score), !.counter = 0]

Modes == {"min", "max"}
Metrics == 0..MaxMetric

(***************************************************************************)
(* Output directories and checkpoint files.                                *)
(***************************************************************************)
BaseDir == <<"base">>
TrialDir(n) == <<"base", n>>
MaxTrialNumber == MaxTotalTrials - 1
Dirs == {BaseDir} \cup {TrialDir(n) : n \in 0..MaxTrialNumber}

NoFiles == [last |-> None, best |-> None]

\* No train() call is active and nothing was ever written.
TrainIdle ==
    /\ disk = [d \in Dirs |-> NoFiles]
    /\ pc = "idle"
    /\ output_dir = BaseDir
    /\ trial = None
    /\ epochs = 0
    /\ num_val_batches = 0
    /\ start_epoch = 0
    /\ epoch = 0
    /\ val_acc = 0
    /\ best_val_acc = 0
    /\ best_epoch = 0
    /\ mlflow_step = None
    /\ result = None
    /\ run_id = 0
    /\ resume_ckpt = None
    /\ completed = [d \in Dirs |-> <<>>]
    /\ prior_best = [d \in Dirs |-> [all |-> 0 - 1, run |-> 0 - 1]]
    /\ best_write = None
    /\ restarts = 0

\* study_config.get("sampler", {}).get("type", "TPE") and
\* study_config.get("pruner", {}).get("type") of a configuration that names
\* neither.
DefaultStudyConfig == [sampler |-> "TPE", pruner |-> None]

\* No study exists and run_optimization() is not running.
StudyOff ==
    /\ storage = None
    /\ study_config = DefaultStudyConfig
    /\ study = None
    /\ n_trials = 0
    /\ study_trials = <<>>
    /\ spc = "off"
    /\ i_trial = 0
    /\ raised_exc = None
    /\ next_uid = 1
    /\ done_before = 0

Identity(n) == [i \in 1..n |-> i]

\* No loss object exists.
LossIdle ==
    /\ class_counts = None
    /\ criterion = None
    /\ forward_out = None

\* split_data() has not been called.
SplitIdle ==
    /\ records = <<>>
    /\ ratios = <<70, 15, 15>>
    /\ group_by = None
    /\ rng = [n \in 1..MaxRecords |-> Identity(n)]
    /\ split_out = None
    /\ group_keys = None
    /\ split_history = <<>>

\* The factory classes of factories.py.
Factories == {"DetectorFactory", "BackboneFactory", "LossFactory", "StrategyFactory",
              "FusionFactory"}

\* The factory classes as defined: every _registry is {} (factories.py:25,
\* 49, 84, 119, 144).
FactoryIdle ==
    /\ registry = [f \in Factories |-> <<>>]
    /\ register_log = <<>>
    /\ factory_out = None

\* train_wrapper() has not been called.
WrapperIdle ==
    /\ hyperparams = None
    /\ wrapper_config = None
    /\ components = None

\* A monitor is constructed with some patience, delta and mode.
InitES ==
    /\ \E p \in 0..MaxPatience, d \in 0..MaxDelta, md \in Modes :
          early_stopping = EarlyStopping__init__(p, d, md)
    /\ metric_val = None
    /\ n_calls = 0
    /\ streak = 0
    /\ TrainIdle
    /\ StudyOff
    /\ SplitIdle
    /\ LossIdle
    /\ FactoryIdle
    /\ WrapperIdle

\* One observation: early_stopping(metric_val, model).
Observe ==
    /\ n_calls < MaxCalls
    /\ \E m \in Metrics :
          /\ early_stopping' = EarlyStopping__call__(early_stopping, m)
          /\ metric_val' = Some(m)
    /\ n_calls' = n_calls + 1
    /\ streak' = IF IsNone(early_stopping.best_score)
                    \/ Score(early_stopping.mode, Get(metric_val'))
                          >= Get(early_stopping.best_score) + early_stopping.delta
                  THEN 0 ELSE streak + 1
    /\ UNCHANGED <<trainVars, studyVars, splitVars, lossVars, factoryVars, wrapperVars>>

NextES == Observe

SpecES == InitES /\ [][NextES]_vars

(***************************************************************************)
(* train()  (src/06_train.py)                                              *)
(***************************************************************************)
\* Validation accuracies (scaled to integers) an epoch can produce.
Accs == IF spc = "off" THEN 0..MaxAcc ELSE 0..MaxStudyAcc

\* patience = int(config["training"].get("patience", 10)), line 133;
\* train_wrapper's config has no patience entry.
DefaultPatience == 10

Max(a, b) == IF a > b THEN a ELSE b

\* Mutant: resume replays the last completed epoch.
StartEpochReplay(ckpt) == IF IsNone(ckpt) THEN 0 ELSE Get(ckpt).epoch

\* start_epoch = 0; if last.pt exists: start_epoch = checkpoint["epoch"] + 1
StartEpoch(ckpt) == IF IsNone(ckpt) THEN 0 ELSE Get(ckpt).epoch + 1

\* best_val_acc when the epoch loop starts: line 150 takes it from the
\* checkpoint, line 161 then assigns 0.0 unconditionally.
InitialBest(ckpt) == 0

\* The dict passed to torch.save (lines 281-289 and 292-300).
Checkpoint(e, acc, best, rid) ==
    [epoch |-> e, val_acc |-> acc, best_val_acc |-> best, model_state_dict |-> rid]

\* train() up to the loop header (lines 66-178): directories, model,
\* EarlyStopping(patience, mode="max"), resume logic, best initialisation.
TrainBegin(dir, tr, rid, ep, pat, nvb) ==
    /\ num_val_batches' = nvb
    /\ output_dir' = dir
    /\ trial' = tr
    /\ run_id' = rid
    /\ epochs' = ep
    /\ early_stopping' = EarlyStopping__init__(pat, 0, "max")
    /\ resume_ckpt' = disk[dir].last
    /\ start_epoch' = StartEpoch(disk[dir].last)
    /\ epoch' = StartEpoch(disk[dir].last)
    /\ best_val_acc' = InitialBest(disk[dir].last)
    /\ best_epoch' = 0
    /\ val_acc' = 0
    /\ mlflow_step' = None
    /\ result' = None
    /\ pc' = "loop"
    /\ prior_best' = [prior_best EXCEPT ![dir].run = 0 - 1]
    /\ streak' = 0
    /\ UNCHANGED <<disk, completed, best_write, restarts, metric_val, n_calls>>

\* Lines 179-207: the training batches of the epoch and their means.
EpochTrain ==
    /\ pc = "loop"
    /\ epoch < epochs
    /\ pc' = "trained"
    /\ UNCHANGED <<esVars, disk, output_dir, trial, epochs, num_val_batches, start_epoch,
                   epoch, val_acc, best_val_acc, best_epoch, mlflow_step, result,
                   run_id, resume_ckpt, completed, prior_best, best_write, restarts>>
    /\ UNCHANGED <<studyVars, splitVars, lossVars, factoryVars, wrapperVars>>

\* Lines 209-242 when the validation loader yields no batch: val_loss and
\* val_acc are still the floats 0.0 and num_val_batches the int 0, so
\* "val_loss /= num_val_batches" (line 241) raises ZeroDivisionError, which
\* train() does not catch.
EpochValEmpty ==
    /\ pc = "trained"
    /\ num_val_batches = 0
    /\ pc' = "failed"
    /\ UNCHANGED <<esVars, disk, output_dir, trial, epochs, num_val_batches, start_epoch,
                   epoch, val_acc, best_val_acc, best_epoch, mlflow_step, result,
                   run_id, resume_ckpt, completed, prior_best, best_write, restarts>>
    /\ UNCHANGED <<studyVars, splitVars, lossVars, factoryVars, wrapperVars>>

\* Lines 209-242: the validation batches (at least one) and the means of
\* lines 241-242.
EpochVal ==
    /\ pc = "trained"
    /\ num_val_batches > 0
    /\ \E a \in Accs : val_acc' = a
    /\ pc' = "validated"
    /\ UNCHANGED <<esVars, disk, output_dir, trial, epochs, num_val_batches, start_epoch, epoch,
                   best_val_acc, best_epoch, mlflow_step, result, run_id,
                   resume_ckpt, completed, prior_best, best_write, restarts>>
    /\ UNCHANGED <<studyVars, splitVars, lossVars, factoryVars, wrapperVars>>

\* Lines 244-249: scheduler.step() (when there is a scheduler) and the
\* learning rate read back.
SchedulerStep ==
    /\ pc = "validated"
    /\ pc' = "stepped"
    /\ UNCHANGED <<esVars, disk, output_dir, trial, epochs, num_val_batches, start_epoch,
                   epoch, val_acc, best_val_acc, best_epoch, mlflow_step, result,
                   run_id, resume_ckpt, completed, prior_best, best_write, restarts>>
    /\ UNCHANGED <<studyVars, splitVars, lossVars, factoryVars, wrapperVars>>

\* Lines 258-275: history update and mlflow.log_metrics(..., step=epoch).
LogMetrics ==
    /\ pc = "reported"
    /\ mlflow_step' = Some(epoch)
    /\ pc' = "logged"
    /\ UNCHANGED <<esVars, disk, output_dir, trial, epochs, num_val_batches, start_epoch, epoch,
                   val_acc, best_val_acc, best_epoch, result, run_id,
                   resume_ckpt, completed, prior_best, best_write, restarts>>
    /\ UNCHANGED <<studyVars, splitVars, lossVars, factoryVars, wrapperVars>>

\* Mutant: best.pt is written at every epoch.
SaveBestAlways ==
    /\ pc = "logged"
    /\ best_val_acc' = Max(best_val_acc, val_acc)
    /\ best_epoch' = IF val_acc > best_val_acc THEN epoch ELSE best_epoch
    /\ disk' = [disk EXCEPT ![output_dir].best =
                   Some(Checkpoint(epoch, val_acc, val_acc, run_id))]
    /\ best_write' = Some([val_acc |-> val_acc, prior |-> prior_best[output_dir].all])
    /\ pc' = "best_done"
    /\ UNCHANGED <<esVars, output_dir, trial, epochs, num_val_batches, start_epoch, epoch, val_acc,
                   mlflow_step, result, run_id, resume_ckpt, completed, prior_best,
                   restarts>>
    /\ UNCHANGED <<studyVars, splitVars, lossVars, factoryVars, wrapperVars>>

\* Lines 277-289: if val_acc > best_val_acc, update the best and write best.pt.
SaveBest ==
    /\ pc = "logged"
    /\ IF val_acc > best_val_acc
       THEN /\ best_val_acc' = val_acc
            /\ best_epoch' = epoch
            /\ disk' = [disk EXCEPT ![output_dir].best =
                           Some(Checkpoint(epoch, val_acc, val_acc, run_id))]
            /\ best_write' = Some([val_acc |-> val_acc,
                                   prior |-> prior_best[output_dir].all])
       ELSE UNCHANGED <<best_val_acc, best_epoch, disk, best_write>>
    /\ pc' = "best_done"
    /\ UNCHANGED <<esVars, output_dir, trial, epochs, num_val_batches, start_epoch, epoch, val_acc,
                   mlflow_step, result, run_id, resume_ckpt, completed, prior_best,
                   restarts>>
    /\ UNCHANGED <<studyVars, splitVars, lossVars, factoryVars, wrapperVars>>

\* Lines 291-300: last.pt is written unconditionally.
SaveLast ==
    /\ pc = "best_done"
    /\ disk' = [disk EXCEPT ![output_dir].last =
                   Some(Checkpoint(epoch, val_acc, best_val_acc, run_id))]
    /\ completed' = [completed EXCEPT ![output_dir] = Append(@, epoch)]
    /\ prior_best' = [prior_best EXCEPT ![output_dir] =
                         [all |-> Max(@.all, val_acc), run |-> Max(@.run, val_acc)]]
    /\ pc' = "last_done"
    /\ UNCHANGED <<esVars, output_dir, trial, epochs, num_val_batches, start_epoch, epoch, val_acc,
                   best_val_acc, best_epoch, mlflow_step, result, run_id,
                   resume_ckpt, best_write, restarts>>
    /\ UNCHANGED <<studyVars, splitVars, lossVars, factoryVars, wrapperVars>>

\* Mutant: the break of line 306 is missing.
EarlyStopCheckNoBreak ==
    /\ pc = "last_done"
    /\ early_stopping' = EarlyStopping__call__(early_stopping, val_acc)
    /\ streak' = IF IsNone(early_stopping.best_score)
                    \/ val_acc >= Get(early_stopping.best_score) + early_stopping.delta
                  THEN 0 ELSE streak + 1
    /\ pc' = "loop"
    /\ epoch' = epoch + 1
    /\ result' = result
    /\ UNCHANGED <<metric_val, n_calls, disk, output_dir, trial, epochs, num_val_batches,
                   start_epoch, val_acc, best_val_acc, best_epoch, mlflow_step,
                   run_id, resume_ckpt, completed, prior_best, best_write, restarts>>
    /\ UNCHANGED <<studyVars, splitVars, lossVars, factoryVars, wrapperVars>>

\* Lines 302-306: early_stopping(val_acc, model); break when early_stop, else
\* the loop goes on with the next epoch.  After a break train() returns
\* {best_val_acc, best_epoch} (line 610).
EarlyStopCheck ==
    /\ pc = "last_done"
    /\ early_stopping' = EarlyStopping__call__(early_stopping, val_acc)
    /\ streak' = IF IsNone(early_stopping.best_score)
                    \/ val_acc >= Get(early_stopping.best_score) + early_stopping.delta
                  THEN 0 ELSE streak + 1
    /\ IF early_stopping'.early_stop
       THEN /\ pc' = "returned"
            /\ result' = Some([best_val_acc |-> best_val_acc, best_epoch |-> best_epoch])
            /\ epoch' = epoch
       ELSE /\ pc' = "loop"
            /\ epoch' = epoch + 1
            /\ result' = result
    /\ UNCHANGED <<metric_val, n_calls, disk, output_dir, trial, epochs, num_val_batches,
                   start_epoch, val_acc, best_val_acc, best_epoch, mlflow_step,
                   run_id, resume_ckpt, completed, prior_best, best_write, restarts>>
    /\ UNCHANGED <<studyVars, splitVars, lossVars, factoryVars, wrapperVars>>

\* Line 178 with the range exhausted, then line 610.
LoopExhausted ==
    /\ pc = "loop"
    /\ epoch >= epochs
    /\ pc' = "returned"
    /\ result' = Some([best_val_acc |-> best_val_acc, best_epoch |-> best_epoch])
    /\ UNCHANGED <<esVars, disk, output_dir, trial, epochs, num_val_batches, start_epoch, epoch,
                   val_acc, best_val_acc, best_epoch, mlflow_step, run_id,
                   resume_ckpt, completed, prior_best, best_write, restarts>>
    /\ UNCHANGED <<studyVars, splitVars, lossVars, factoryVars, wrapperVars>>

\* The process memory is gone; the files stay.
ProcessStateLost ==
    /\ pc' = "idle"
    /\ output_dir' = BaseDir
    /\ trial' = None
    /\ epochs' = 0
    /\ num_val_batches' = 0
    /\ start_epoch' = 0
    /\ epoch' = 0
    /\ val_acc' = 0
    /\ best_val_acc' = 0
    /\ best_epoch' = 0
    /\ mlflow_step' = None
    /\ result' = None
    /\ resume_ckpt' = None
    /\ early_stopping' = EarlyStopping__init__(0, 0, "max")
    /\ streak' = 0
    /\ UNCHANGED <<disk, completed, prior_best, best_write, metric_val, n_calls>>

(***************************************************************************)
(* SpecTrain: train() called directly (06_train.py main, trial=None) on    *)
(* one output directory; the process may be killed and started again.      *)
(***************************************************************************)
InitTrain ==
    /\ early_stopping = EarlyStopping__init__(0, 0, "max")
    /\ metric_val = None
    /\ n_calls = 0
    /\ streak = 0
    /\ TrainIdle
    /\ StudyOff
    /\ SplitIdle
    /\ LossIdle
    /\ FactoryIdle
    /\ WrapperIdle

\* python 06_train.py: train(manifest, output_dir, config) with trial=None.
TrainCall ==
    /\ pc = "idle"
    /\ \E ep \in 0..MaxEpochs, pat \in 0..MaxTrainPatience, nvb \in 0..MaxValBatches :
          TrainBegin(BaseDir, None, 0, ep, pat, nvb)
    /\ UNCHANGED <<studyVars, splitVars, lossVars, factoryVars, wrapperVars>>

\* Lines 251-256 with trial=None: nothing is reported.
NoTrialReport ==
    /\ pc = "stepped"
    /\ IsNone(trial)
    /\ pc' = "reported"
    /\ UNCHANGED <<esVars, disk, output_dir, trial, epochs, num_val_batches, start_epoch, epoch,
                   val_acc, best_val_acc, best_epoch, mlflow_step, result, run_id,
                   resume_ckpt, completed, prior_best, best_write, restarts>>
    /\ UNCHANGED <<studyVars, splitVars, lossVars, factoryVars, wrapperVars>>

\* The process is killed (or exits) at any point of train().
KillTrain ==
    /\ pc # "idle"
    /\ restarts < MaxRestarts
    /\ restarts' = restarts + 1
    /\ run_id' = run_id
    /\ ProcessStateLost
    /\ UNCHANGED <<studyVars, splitVars, lossVars, factoryVars, wrapperVars>>

NextTrain ==
    \/ TrainCall
    \/ EpochTrain
    \/ EpochValEmpty
    \/ EpochVal
    \/ SchedulerStep
    \/ NoTrialReport
    \/ LogMetrics
    \/ SaveBest
    \/ SaveLast
    \/ EarlyStopCheck
    \/ LoopExhausted
    \/ KillTrain

SpecTrain == InitTrain /\ [][NextTrain]_vars

\* The statements of a running train() are executed one after the other: a
\* call that is not killed keeps taking its next step.
TrainStep ==
    \/ EpochTrain
    \/ EpochValEmpty
    \/ EpochVal
    \/ SchedulerStep
    \/ NoTrialReport
    \/ LogMetrics
    \/ SaveBest
    \/ SaveLast
    \/ EarlyStopCheck
    \/ LoopExhausted

SpecTrainFair == SpecTrain /\ WF_vars(TrainStep)

(***************************************************************************)
(* Claims about train(), checked under SpecTrain.                          *)
(***************************************************************************)
\* C2: on resume from last.pt the loop's best metric starts at the
\* checkpoint's best_val_acc, and best.pt is overwritten only by an epoch
\* whose metric exceeds the best metric of all epochs completed before it,
\* those completed before a restart included.
BestRestoredOnResume ==
    /\ (pc = "loop" /\ epoch = start_epoch /\ ~IsNone(resume_ckpt)) =>
           best_val_acc = Get(resume_ckpt).best_val_acc
    /\ ~IsNone(best_write) => Get(best_write).val_acc > Get(best_write).prior

\* C3: start_epoch is the checkpoint's epoch + 1 on resume and 0 without a
\* last.pt; over all invocations the completed epochs are 0, 1, 2, ... with
\* none repeated and none skipped.
ResumeAtNextEpoch ==
    /\ pc # "idle" =>
          start_epoch = IF IsNone(resume_ckpt) THEN 0 ELSE Get(resume_ckpt).epoch + 1
    /\ \A i \in 1..Len(completed[BaseDir]) : completed[BaseDir][i] = i - 1

\* A resumed invocation has completed an epoch after the ones completed
\* before the restart.
ResumeAtNextEpochWitness ==
    /\ ~IsNone(resume_ckpt)
    /\ start_epoch >= 1
    /\ pc = "last_done"
    /\ epoch = start_epoch
    /\ Len(completed[BaseDir]) = start_epoch + 1

BestTrackersAgree ==
    (IsNone(resume_ckpt) /\ pc \in {"loop", "returned"} /\ ~IsNone(mlflow_step)) =>
        /\ early_stopping.delta = 0
        /\ early_stopping.mode = "max"
        /\ early_stopping.best_score = Some(best_val_acc)

\* A fresh run has completed at least two epochs, the latest of them below
\* the best.
BestTrackersAgreeWitness ==
    /\ IsNone(resume_ckpt)
    /\ pc = "loop"
    /\ mlflow_step = Some(epoch - 1)
    /\ epoch >= 2
    /\ val_acc < best_val_acc
    /\ best_epoch >= 1
    /\ early_stopping.best_score = Some(best_val_acc)

\* C30: the epoch loop of train() ends.  An epoch is executed only while
\* start_epoch <= epoch < epochs, so at most epochs - start_epoch of them
\* (none when start_epoch >= epochs); for patience >= 1 no more than
\* patience epochs follow the last one the monitor took as an improvement;
\* and a call that entered the loop comes to return {best_val_acc,
\* best_epoch} unless an exception is raised (or the process is killed).
LoopTerminates ==
    /\ [](pc \in {"trained", "validated", "stepped", "reported", "logged",
                   "best_done", "last_done"} =>
                start_epoch <= epoch /\ epoch < epochs)
    /\ [](pc \in {"loop", "returned"} =>
                start_epoch <= epoch /\ epoch <= Max(epochs, start_epoch))
    /\ []((pc = "returned" /\ start_epoch >= epochs) =>
                epoch = start_epoch /\ IsNone(mlflow_step))
    /\ []((pc # "idle" /\ early_stopping.patience >= 1) =>
                /\ streak <= early_stopping.patience
                /\ (pc # "returned" => streak < early_stopping.patience))
    /\ [](pc = "returned" =>
                result = Some([best_val_acc |-> best_val_acc, best_epoch |-> best_epoch]))
    /\ ((pc = "loop") ~> (pc \in {"returned", "failed", "idle"}))

\* The loop was left by the early stop, patience epochs after the last
\* improvement and before the range of epochs was used up.
LoopTerminatesWitness ==
    /\ pc = "returned"
    /\ early_stopping.early_stop
    /\ early_stopping.patience >= 1
    /\ streak = early_stopping.patience
    /\ epoch + 1 < epochs

\* C13: a run of train() that returns without any epoch having improved on
\* the initial best (zero epochs executed included) returns a best_val_acc
\* that is a sentinel below every metric an epoch can produce, so that it
\* cannot be taken for the result of a run whose best epoch scored 0.0.
NeverImprovedSentinel ==
    (pc = "returned" /\ prior_best[output_dir].run < 0) =>
        Get(result).best_val_acc < 0

\* C14: with a validation loader that yields zero batches (an empty val
\* partition), train() does not raise: its epochs complete or the run ends
\* normally.
EmptyValTolerated ==
    (pc # "idle" /\ num_val_batches = 0) => pc # "failed"

(***************************************************************************)
(* run_optimization()  (src/src/optimization/optuna_runner.py) with        *)
(* train_wrapper()  (src/07_optimize.py, src/05_optimize.py).              *)
(*                                                                         *)
(* optuna.create_study, Study.optimize and Trial are library code; their   *)
(* behaviour at the call sites is modelled as Optuna documents it:         *)
(*  - create_study(storage=None) makes a new in-memory study; with a       *)
(*    storage URL and load_if_exists=True it loads the stored trials;      *)
(*  - a new trial's number is the number of trials already in the study;   *)
(*  - optimize(n_trials=n) starts n new trials, whatever the study holds;  *)
(*  - an objective that raises TrialPruned leaves the trial PRUNED, one    *)
(*    that raises another Exception leaves it FAIL, and, with the default  *)
(*    catch=(), that exception is raised again out of optimize();          *)
(*  - study.best_trial raises ValueError when no trial is COMPLETE.        *)
(***************************************************************************)
Storages == {None, Some("sqlite")}

\* Study.optimize(objective, n_trials=n_trials, ...), lines 192-200: the
\* number of trials this call starts.
NewTrialBudget(n, trials) == n

\* Trial.number of the trial created by study.ask().
TrialNumber(trials) == Len(trials)

\* optuna.create_study(..., storage=storage, load_if_exists=True), lines
\* 163-170: the trials of the study object it returns.
CreateStudy(st, stored) == IF IsNone(st) THEN <<>> ELSE stored

\* train_wrapper lines 35-38: the directory handed to train().
WrapperOutputDir(base, tr) == IF IsNone(tr) THEN base ELSE TrialDir(Get(tr))

\* Mutant: the except block wraps what it caught in a new exception.
ObjectiveExceptWrap(exc) == "Exception"

\* objective lines 99-101: "except Exception as e: logger.error(...); raise"
\* re-raises what it caught (TrialPruned is an Exception subclass).
ObjectiveExcept(exc) == exc

\* State Optuna records for an objective that raised exc.
RecordedState(exc) == IF exc = "TrialPruned" THEN "PRUNED" ELSE "FAIL"

\* study.optimize(...) is called without catch=, line 195-200: an exception
\* of a failed trial is raised again by optimize().
OptimizeCatches == FALSE

NumComplete(trials) ==
    Cardinality({i \in 1..Len(trials) : trials[i].state = "COMPLETE"})

\* The pruner compares the trial with the values other trials of the study
\* reported; without such a trial should_prune() answers False.
MayPrune ==
    /\ ~IsNone(trial)
    /\ \E i \in 1..(Len(study_trials) - 1) : ~IsNone(study_trials[i].last_step)

\* trial.report(value, step): the latest step the running trial reported.
Report(step) ==
    [study_trials EXCEPT ![Len(study_trials)].last_step =
        IF IsNone(@) THEN Some(step) ELSE Some(Max(Get(@), step))]

Finish(trials, st, v, exc) ==
    [trials EXCEPT ![Len(trials)] =
        [@ EXCEPT !.state = st, !.value = v, !.raised = exc]]

\* Lines 133-141: the sampler object for the configured type, None for a
\* type that is none of the three.
ConfigureSampler(sampler_type) ==
    IF sampler_type = "TPE" THEN Some("TPESampler")
    ELSE IF sampler_type = "Random" THEN Some("RandomSampler")
    ELSE IF sampler_type = "CmaEs" THEN Some("CmaEsSampler")
    ELSE None

\* Lines 144-159: the pruner object for the configured type, None for a
\* missing type and for a type that is none of the three.
ConfigurePruner(pruner_type) ==
    IF pruner_type = Some("MedianPruner") THEN Some("MedianPruner")
    ELSE IF pruner_type = Some("HyperbandPruner") THEN Some("HyperbandPruner")
    ELSE IF pruner_type = Some("PercentilePruner") THEN Some("PercentilePruner")
    ELSE None

\* optuna.create_study(sampler=..., pruner=...): with sampler=None the study
\* uses a TPESampler, with pruner=None a MedianPruner.
StudyObject(sampler, pruner) ==
    [sampler |-> IF IsNone(sampler) THEN "TPESampler" ELSE Get(sampler),
     pruner |-> IF IsNone(pruner) THEN "MedianPruner" ELSE Get(pruner)]

\* run_optimization lines 126-195: sampler/pruner, create_study, objective,
\* parent MLflow run, up to the call of study.optimize.
RunOptimization ==
    /\ spc = "off"
    /\ pc = "idle"
    /\ study' = Some(StudyObject(ConfigureSampler(study_config.sampler),
                                 ConfigurePruner(study_config.pruner)))
    /\ study_trials' = CreateStudy(storage, study_trials)
    /\ i_trial' = 0
    /\ raised_exc' = None
    /\ spc' = "optimizing"
    /\ UNCHANGED <<esVars, trainVars, storage, study_config, n_trials, next_uid, done_before, splitVars, lossVars, factoryVars, wrapperVars>>

\* One iteration of optimize(): study.ask(), objective lines 59-87 (sample,
\* merge fixed params, add trial), train_wrapper lines 29-70, and train()
\* up to its loop header.
TrialStart ==
    /\ spc = "optimizing"
    /\ i_trial < NewTrialBudget(n_trials, study_trials)
    /\ next_uid <= MaxTotalTrials
    /\ LET number == TrialNumber(study_trials) IN
       /\ study_trials' = Append(study_trials,
              [number |-> number, state |-> "RUNNING", value |-> None,
               last_step |-> None, raised |-> "none", uid |-> next_uid])
       /\ \E ep \in 0..MaxStudyEpochs :
             TrainBegin(WrapperOutputDir(BaseDir, Some(number)),
                        Some(number), next_uid, ep, DefaultPatience, 1)
    /\ next_uid' = next_uid + 1
    /\ i_trial' = i_trial + 1
    /\ spc' = "in_trial"
    /\ UNCHANGED <<storage, study_config, study, n_trials, raised_exc, done_before, splitVars, lossVars, factoryVars, wrapperVars>>

\* 06_train.py lines 252-254: trial.report(val_acc, epoch) and
\* trial.should_prune() answering False.
TrialReport ==
    /\ pc = "stepped"
    /\ ~IsNone(trial)
    /\ study_trials' = Report(epoch)
    /\ pc' = "reported"
    /\ UNCHANGED <<esVars, disk, output_dir, trial, epochs, num_val_batches, start_epoch, epoch,
                   val_acc, best_val_acc, best_epoch, mlflow_step, result, run_id,
                   resume_ckpt, completed, prior_best, best_write, restarts,
                   storage, study_config, study, n_trials, spc, i_trial, raised_exc, next_uid,
                   done_before, splitVars, lossVars, factoryVars, wrapperVars>>

\* Mutant: the prune check is made at the end of the epoch, after the
\* checkpoints.
TrialPruneAfterSave ==
    /\ pc = "last_done"
    /\ MayPrune
    /\ study_trials' = Report(epoch)
    /\ pc' = "pruned"
    /\ UNCHANGED <<esVars, disk, output_dir, trial, epochs, num_val_batches, start_epoch, epoch,
                   val_acc, best_val_acc, best_epoch, mlflow_step, result, run_id,
                   resume_ckpt, completed, prior_best, best_write, restarts,
                   storage, study_config, study, n_trials, spc, i_trial, raised_exc, next_uid,
                   done_before, splitVars, lossVars, factoryVars, wrapperVars>>

\* 06_train.py lines 252-256: should_prune() answers True and train() raises
\* optuna.TrialPruned.
TrialPrune ==
    /\ pc = "stepped"
    /\ MayPrune
    /\ study_trials' = Report(epoch)
    /\ pc' = "pruned"
    /\ UNCHANGED <<esVars, disk, output_dir, trial, epochs, num_val_batches, start_epoch, epoch,
                   val_acc, best_val_acc, best_epoch, mlflow_step, result, run_id,
                   resume_ckpt, completed, prior_best, best_write, restarts,
                   storage, study_config, study, n_trials, spc, i_trial, raised_exc, next_uid,
                   done_before, splitVars, lossVars, factoryVars, wrapperVars>>

\* A data-loading or numerical exception inside the epoch loop (lines
\* 186-242), that of an empty validation loader included; train() does not
\* catch it.
EpochException ==
    /\ spc = "in_trial"
    /\ pc = "loop"
    /\ epoch < epochs
    /\ pc' = "failed"
    /\ UNCHANGED <<esVars, disk, output_dir, trial, epochs, num_val_batches, start_epoch, epoch,
                   val_acc, best_val_acc, best_epoch, mlflow_step, result, run_id,
                   resume_ckpt, completed, prior_best, best_write, restarts, studyVars, splitVars, lossVars, factoryVars, wrapperVars>>

\* objective lines 88-97 after train() returned: report(best_val_acc),
\* should_prune() False, return val_acc; Optuna records COMPLETE.
TrialComplete ==
    /\ spc = "in_trial"
    /\ pc = "returned"
    /\ study_trials' = Finish(Report(Get(result).best_epoch), "COMPLETE",
                              Some(Get(result).best_val_acc), "none")
    /\ spc' = "optimizing"
    /\ pc' = "idle"
    /\ UNCHANGED <<esVars, disk, output_dir, trial, epochs, num_val_batches, start_epoch, epoch,
                   val_acc, best_val_acc, best_epoch, mlflow_step, result, run_id,
                   resume_ckpt, completed, prior_best, best_write, restarts,
                   storage, study_config, study, n_trials, i_trial, raised_exc, next_uid, done_before, splitVars, lossVars, factoryVars, wrapperVars>>

\* objective lines 92-95 after train() returned: should_prune() True, the
\* objective raises TrialPruned itself; lines 99-101 re-raise it.  The
\* pruners of lines 147-159 decide on the trial's reports: asked again with
\* no new report they answer as they did in the epoch loop (False, or the
\* run would not have returned), so this needs the report of line 92 to be
\* the trial's first, which is the case when train() executed no epoch
\* (epochs = 0, or a last.pt of an already finished run in the directory).
TrialPrunedAfterRun ==
    /\ spc = "in_trial"
    /\ pc = "returned"
    /\ MayPrune
    /\ IsNone(study_trials[Len(study_trials)].last_step)
    /\ study_trials' = Finish(Report(Get(result).best_epoch),
                              RecordedState(ObjectiveExcept("TrialPruned")),
                              Some(Get(result).best_val_acc), "none")
    /\ spc' = "optimizing"
    /\ pc' = "idle"
    /\ UNCHANGED <<esVars, disk, output_dir, trial, epochs, num_val_batches, start_epoch, epoch,
                   val_acc, best_val_acc, best_epoch, mlflow_step, result, run_id,
                   resume_ckpt, completed, prior_best, best_write, restarts,
                   storage, study_config, study, n_trials, i_trial, raised_exc, next_uid, done_before, splitVars, lossVars, factoryVars, wrapperVars>>

\* train() raised TrialPruned (line 256); train_wrapper lets it pass, the
\* objective's except block (lines 99-101) logs and re-raises, Optuna
\* records the trial and optimize() goes on.
TrialPrunedInRun ==
    /\ spc = "in_trial"
    /\ pc = "pruned"
    /\ study_trials' = Finish(study_trials,
                              RecordedState(ObjectiveExcept("TrialPruned")),
                              None, "TrialPruned")
    /\ spc' = "optimizing"
    /\ pc' = "idle"
    /\ UNCHANGED <<esVars, disk, output_dir, trial, epochs, num_val_batches, start_epoch, epoch,
                   val_acc, best_val_acc, best_epoch, mlflow_step, result, run_id,
                   resume_ckpt, completed, prior_best, best_write, restarts,
                   storage, study_config, study, n_trials, i_trial, raised_exc, next_uid, done_before, splitVars, lossVars, factoryVars, wrapperVars>>

\* train() raised another exception; the objective's except block logs and
\* re-raises, Optuna records the trial, and since optimize() was called
\* without catch= the exception leaves optimize() and run_optimization().
TrialFailed ==
    /\ spc = "in_trial"
    /\ pc = "failed"
    /\ study_trials' = Finish(study_trials,
                              RecordedState(ObjectiveExcept("Exception")),
                              None, "Exception")
    /\ IF OptimizeCatches
       THEN spc' = "optimizing" /\ raised_exc' = raised_exc
       ELSE spc' = "raised" /\ raised_exc' = Some(ObjectiveExcept("Exception"))
    /\ pc' = "idle"
    /\ UNCHANGED <<esVars, disk, output_dir, trial, epochs, num_val_batches, start_epoch, epoch,
                   val_acc, best_val_acc, best_epoch, mlflow_step, result, run_id,
                   resume_ckpt, completed, prior_best, best_write, restarts,
                   storage, study_config, study, n_trials, i_trial, next_uid, done_before, splitVars, lossVars, factoryVars, wrapperVars>>

\* optimize() has used its budget; lines 202-214: study.best_trial exists,
\* the best value is logged and the study returned.
StudyReturn ==
    /\ spc = "optimizing"
    /\ i_trial >= NewTrialBudget(n_trials, study_trials)
    /\ NumComplete(study_trials) > 0
    /\ spc' = "returned"
    /\ UNCHANGED <<esVars, trainVars, storage, study_config, study, n_trials, study_trials, i_trial,
                   raised_exc, next_uid, done_before, splitVars, lossVars, factoryVars, wrapperVars>>

\* optimize() has used its budget but no trial is COMPLETE: line 203
\* study.best_trial raises ValueError.
StudyNoBestTrial ==
    /\ spc = "optimizing"
    /\ i_trial >= NewTrialBudget(n_trials, study_trials)
    /\ NumComplete(study_trials) = 0
    /\ spc' = "raised"
    /\ raised_exc' = Some("ValueError")
    /\ UNCHANGED <<esVars, trainVars, storage, study_config, study, n_trials, study_trials, i_trial,
                   next_uid, done_before, splitVars, lossVars, factoryVars, wrapperVars>>

\* The process is killed (or has ended) at any point; files and a storage
\* database stay, an in-memory study is gone.  A trial that was running
\* stays RUNNING in the database.
KillStudy ==
    /\ spc # "off"
    /\ restarts < MaxStudyRestarts
    /\ restarts' = restarts + 1
    /\ done_before' = done_before
         + Cardinality({i \in 1..Len(study_trials) :
               /\ study_trials[i].state = "COMPLETE"
               /\ i > Len(study_trials) - i_trial})
    /\ study_trials' = IF IsNone(storage) THEN <<>> ELSE study_trials
    /\ spc' = "off"
    /\ i_trial' = 0
    /\ raised_exc' = None
    /\ run_id' = 0
    /\ ProcessStateLost
    /\ study' = None
    /\ UNCHANGED <<storage, study_config, n_trials, next_uid, splitVars, lossVars, factoryVars, wrapperVars>>

(***************************************************************************)
(* SpecStudy: python 07_optimize.py, possibly killed and run again with    *)
(* the same study name, n_trials and output directory.                     *)
(***************************************************************************)
InitStudy ==
    /\ early_stopping = EarlyStopping__init__(0, 0, "max")
    /\ metric_val = None
    /\ n_calls = 0
    /\ streak = 0
    /\ TrainIdle
    /\ storage \in Storages
    /\ study_config = DefaultStudyConfig
    /\ study = None
    /\ n_trials \in 1..MaxNTrials
    /\ study_trials = <<>>
    /\ spc = "off"
    /\ i_trial = 0
    /\ raised_exc = None
    /\ next_uid = 1
    /\ done_before = 0
    /\ SplitIdle
    /\ LossIdle
    /\ FactoryIdle
    /\ WrapperIdle

NextStudy ==
    \/ RunOptimization
    \/ TrialStart
    \/ EpochTrain
    \/ EpochVal
    \/ SchedulerStep
    \/ TrialReport
    \/ TrialPrune
    \/ EpochException
    \/ LogMetrics
    \/ SaveBest
    \/ SaveLast
    \/ EarlyStopCheck
    \/ LoopExhausted
    \/ TrialComplete
    \/ TrialPrunedAfterRun
    \/ TrialPrunedInRun
    \/ TrialFailed
    \/ StudyReturn
    \/ StudyNoBestTrial
    \/ KillStudy

SpecStudy == InitStudy /\ [][NextStudy]_vars

(***************************************************************************)
(* SpecRunConfig: run_optimization() called with a study_config that names *)
(* any sampler and pruner type, up to the start of the first trial.        *)
(***************************************************************************)
SamplerTypes == {"TPE", "Random", "CmaEs", "Grid"}
PrunerTypes == {None, Some("MedianPruner"), Some("HyperbandPruner"),
                Some("PercentilePruner"), Some("ThresholdPruner")}

\* The types lines 134-139 and 147-157 know.
KnownSamplerTypes == {"TPE", "Random", "CmaEs"}
KnownPrunerTypes == {"MedianPruner", "HyperbandPruner", "PercentilePruner"}

InitRunConfig ==
    /\ early_stopping = EarlyStopping__init__(0, 0, "max")
    /\ metric_val = None
    /\ n_calls = 0
    /\ streak = 0
    /\ TrainIdle
    /\ storage \in Storages
    /\ study_config \in [sampler : SamplerTypes, pruner : PrunerTypes]
    /\ study = None
    /\ n_trials \in 1..MaxNTrials
    /\ study_trials = <<>>
    /\ spc = "off"
    /\ i_trial = 0
    /\ raised_exc = None
    /\ next_uid = 1
    /\ done_before = 0
    /\ SplitIdle
    /\ LossIdle
    /\ FactoryIdle
    /\ WrapperIdle

NextRunConfig ==
    \/ RunOptimization
    \/ TrialStart

SpecRunConfig == InitRunConfig /\ [][NextRunConfig]_vars

\* C17: with a sampler type or a pruner type in study_config that
\* run_optimization does not know, no study is created and no trial is
\* started: run_optimization raises first.
UnknownTypeFailsFast ==
    (\/ study_config.sampler \notin KnownSamplerTypes
     \/ (~IsNone(study_config.pruner)
           /\ Get(study_config.pruner) \notin KnownPrunerTypes)) =>
        /\ IsNone(study)
        /\ spc \in {"off", "raised"}
        /\ study_trials = <<>>

(***************************************************************************)
(* Claims about the study, checked under SpecStudy.                        *)
(***************************************************************************)
\* C4: a study kept in a storage, interrupted and run again with the same
\* name and n_trials, still holds the trials completed before, and the new
\* run_optimization() call returns after n_trials minus the number of
\* trials completed before (10 - 4 = 6, not 10).
ResumeCountsRecordedTrials ==
    (~IsNone(storage) /\ spc # "off") =>
        /\ NumComplete(study_trials) >= done_before
        /\ (spc = "returned" /\ done_before <= n_trials) =>
               i_trial = n_trials - done_before

\* C5: an exception of a trial other than the pruning signal does not leave
\* run_optimization(); the study goes on until the n_trials budget is used.
FailedTrialDoesNotAbort ==
    /\ raised_exc # Some("Exception")
    /\ spc = "raised" => i_trial >= n_trials

\* The report of the running trial (None before its first).
LastReport == IF study_trials = <<>> THEN None
              ELSE study_trials[Len(study_trials)].last_step

\* C27: within an epoch of train() the steps follow each other in the order
\* training batches, validation batches, scheduler step, trial report with
\* the prune check, MLflow metrics, checkpoints (best.pt, then last.pt),
\* early-stop observation.  TrialPruned is raised only at the prune check,
\* and then epoch e's metrics have not been emitted, no file has been
\* written in the epoch and last.pt, if there is one, is that of epoch e-1.
EpochStepOrder ==
    [][/\ (pc' # pc /\ pc' # "idle") =>
            <<pc, pc'>> \in
                { <<"idle", "loop">>, <<"loop", "trained">>, <<"loop", "failed">>,
                  <<"loop", "returned">>, <<"trained", "validated">>,
                  <<"validated", "stepped">>, <<"stepped", "reported">>,
                  <<"stepped", "pruned">>, <<"reported", "logged">>,
                  <<"logged", "best_done">>, <<"best_done", "last_done">>,
                  <<"last_done", "loop">>, <<"last_done", "returned">> }
       /\ (pc # "idle" /\ pc' # "idle" /\ LastReport' # LastReport) =>
            pc = "stepped" /\ LastReport' = Some(epoch)
       /\ (pc # "idle" /\ pc' # "idle" /\ mlflow_step' # mlflow_step) =>
            pc = "reported" /\ mlflow_step' = Some(epoch)
       /\ disk' # disk => pc \in {"logged", "best_done"}
       /\ (pc # "idle" /\ pc' # "idle" /\ early_stopping' # early_stopping) =>
            pc = "last_done"
       /\ pc' = "pruned" =>
            /\ pc = "stepped"
            /\ mlflow_step' # Some(epoch)
            /\ disk' = disk
            /\ ~IsNone(disk[output_dir].last) =>
                  Get(disk[output_dir].last).epoch = epoch - 1]_vars

\* A trial is pruned at its second epoch: the metrics and last.pt are those
\* of its first.
EpochStepOrderWitness ==
    /\ pc = "pruned"
    /\ epoch >= 1
    /\ mlflow_step = Some(epoch - 1)
    /\ ~IsNone(disk[output_dir].last)
    /\ Get(disk[output_dir].last).epoch = epoch - 1
    /\ LastReport = Some(epoch)

\* C15: when a trial's train() has returned normally (epoch range exhausted
\* or early stop), the trial is recorded COMPLETE with the returned
\* best_val_acc as its value; the report/should_prune step the objective
\* makes after the run never records it PRUNED.
NormalReturnIsComplete ==
    [][(spc = "in_trial" /\ pc = "returned" /\ spc' # "off") =>
          /\ study_trials'[Len(study_trials')].state = "COMPLETE"
          /\ study_trials'[Len(study_trials')].value = Some(Get(result).best_val_acc)]_vars

\* C6: a trial whose training run raised TrialPruned in the epoch loop is
\* recorded PRUNED (never FAIL or COMPLETE); a trial whose objective raised
\* any other exception is recorded FAIL.
TrialStateClassification ==
    \A i \in 1..Len(study_trials) :
        /\ study_trials[i].raised = "TrialPruned" => study_trials[i].state = "PRUNED"
        /\ study_trials[i].raised = "Exception" => study_trials[i].state = "FAIL"

\* The study holds a trial pruned in its epoch loop and a trial that failed.
TrialStateClassificationWitness ==
    /\ \E i \in 1..Len(study_trials) :
          study_trials[i].raised = "TrialPruned" /\ study_trials[i].state = "PRUNED"
    /\ \E j \in 1..Len(study_trials) :
          study_trials[j].raised = "Exception" /\ study_trials[j].state = "FAIL"

\* C7: over all study runs sharing the base output directory, restarts
\* included, a trial's training run never loads a last.pt written by
\* another trial.
TrialIsolation ==
    (~IsNone(trial) /\ ~IsNone(resume_ckpt)) =>
        Get(resume_ckpt).model_state_dict = run_id

(***************************************************************************)
(* split_data()  (src/03_preprocess.py, src/02_prepare_data.py)            *)
(*                                                                         *)
(* A string is the sequence of its "_"-separated tokens, so                *)
(* str.split("_") is the identity on this representation and parts[1] is   *)
(* the one-token string <<s[2]>>.  Ratios are percentages.                 *)
(*                                                                         *)
(* sklearn's GroupShuffleSplit is library code, modelled as documented:    *)
(* the distinct groups are sorted (np.unique), n_test = ceil(test_size *   *)
(* n_groups), n_train = n_groups - n_test, a ValueError unless             *)
(* 0 < test_size < 1 and n_train > 0, the test groups are the first n_test *)
(* entries of rng.permutation(n_groups) and the train groups the rest.     *)
(***************************************************************************)
Tokens == <<"0", "1", "2", "3", "a", "b", "c", "x">>

\* Character order of the tokens.
TokRank(t) == CHOOSE i \in 1..Len(Tokens) : Tokens[i] = t

\* s < t for strings (lexicographic).
RECURSIVE StrLess(_, _)
StrLess(s, t) ==
    IF t = <<>> THEN FALSE
    ELSE IF s = <<>> THEN TRUE
    ELSE IF Head(s) = Head(t) THEN StrLess(Tail(s), Tail(t))
    ELSE TokRank(Head(s)) < TokRank(Head(t))

\* np.unique(groups): the distinct values in ascending order.
RECURSIVE SortedSeq(_)
SortedSeq(S) ==
    IF S = {} THEN <<>>
    ELSE LET m == CHOOSE x \in S : \A y \in S \ {x} : StrLess(x, y)
         IN  <<m>> \o SortedSeq(S \ {m})

\* str(v) of a meta value: a string [str |-> s] is itself, an integer
\* [int |-> n] (0 <= n <= 3) is its decimal digit.
Str(v) == IF "int" \in DOMAIN v THEN <<Tokens[v.int + 1]>> ELSE v.str

\* Mutant: the id pattern is tried before the meta field.
ExtractGroupKeyIdFirst(record, gb) ==
    IF IsNone(gb) THEN record.id
    ELSE IF Get(gb) = "camera_id" /\ Len(record.id) >= 2
         THEN <<record.id[2]>>
    ELSE IF ~IsNone(record.meta) /\ Get(gb) \in DOMAIN Get(record.meta)
         THEN Str(Get(record.meta)[Get(gb)])
    ELSE record.id

\* extract_group_key(record, group_by), 03_preprocess.py:107-132 (the same
\* function is 02_prepare_data.py:65-80).
ExtractGroupKey(record, gb) ==
    IF IsNone(gb) THEN record.id
    ELSE IF ~IsNone(record.meta) /\ Get(gb) \in DOMAIN Get(record.meta)
         THEN Str(Get(record.meta)[Get(gb)])
    ELSE IF Get(gb) = "camera_id" /\ Len(record.id) >= 2
         THEN <<record.id[2]>>
    ELSE record.id

CeilDiv(a, b) == (a + b - 1) \div b

Raised == [raised |-> TRUE, train |-> <<>>, test |-> <<>>]

\* Positions of seq (ascending) whose entry is in S: np.flatnonzero(np.isin).
RECURSIVE PositionsIn(_, _, _)
PositionsIn(seq, S, i) ==
    IF i > Len(seq) THEN <<>>
    ELSE (IF seq[i] \in S THEN <<i>> ELSE <<>>) \o PositionsIn(seq, S, i + 1)

\* Mutant: the shuffle is applied to the samples instead of the groups.
GroupShuffleSplitSamples(groups, num, den, perm) ==
    LET n == Len(groups)
        n_test == CeilDiv(num * n, den)
        n_train == n - n_test
    IN  IF ~(0 < num /\ num < den) \/ n_train = 0
        THEN Raised
        ELSE [raised |-> FALSE,
              train |-> PositionsIn([i \in 1..n |-> i],
                                    {perm[n][k] : k \in (n_test + 1)..n}, 1),
              test |-> PositionsIn([i \in 1..n |-> i],
                                   {perm[n][k] : k \in 1..n_test}, 1)]

\* next(GroupShuffleSplit(n_splits=1, test_size=num/den,
\* random_state=seed).split(X, groups=groups)): positions of the train and
\* of the test samples.
GroupShuffleSplit(groups, num, den, perm) ==
    LET classes == SortedSeq({groups[i] : i \in 1..Len(groups)})
        n == Len(classes)
        n_test == CeilDiv(num * n, den)
        n_train == n - n_test
    IN  IF ~(0 < num /\ num < den) \/ n_train = 0
        THEN Raised
        ELSE [raised |-> FALSE,
              train |-> PositionsIn(groups,
                           {classes[perm[n][k]] : k \in (n_test + 1)..n}, 1),
              test |-> PositionsIn(groups,
                           {classes[perm[n][k]] : k \in 1..n_test}, 1)]

Range(seq) == {seq[i] : i \in 1..Len(seq)}

\* Mutant: the validation records are labelled "valid".
AssignSplitsValid(n, train_idx, val_idx, test_idx) ==
    [raised |-> FALSE,
     split |-> [i \in 1..n |->
                  IF i \in Range(test_idx) THEN "test"
                  ELSE IF i \in Range(val_idx) THEN "valid"
                  ELSE "train"]]

\* Lines 187-198: split_map and the "split" field of every record.
AssignSplits(n, train_idx, val_idx, test_idx) ==
    [raised |-> FALSE,
     split |-> [i \in 1..n |->
                  IF i \in Range(test_idx) THEN "test"
                  ELSE IF i \in Range(val_idx) THEN "val"
                  ELSE "train"]]

SplitRaised == [raised |-> TRUE, split |-> <<>>]

\* Second stage, lines 178-182: train vs val within trainval.
SecondStage(n, groups, trainval_idx, test_idx, num, den, perm) ==
    LET g == GroupShuffleSplit([k \in 1..Len(trainval_idx) |-> groups[trainval_idx[k]]],
                               num, den, perm)
    IN  IF g.raised THEN SplitRaised
        ELSE AssignSplits(n,
                 [k \in 1..Len(g.train) |-> trainval_idx[g.train[k]]],
                 [k \in 1..Len(g.test) |-> trainval_idx[g.test[k]]],
                 test_idx)

\* Mutant: with test_ratio 0 the two index arrays of the skipped first stage
\* are swapped.
SplitData03SkipSwapped(recs, rat, gb, perm) ==
    LET n == Len(recs)
        groups == [i \in 1..n |-> ExtractGroupKey(recs[i], gb)]
        stage1 == IF rat[3] > 0
                  THEN GroupShuffleSplit(groups, rat[3], 100, perm)
                  ELSE [raised |-> FALSE, train |-> <<>>, test |-> Identity(n)]
    IN  IF stage1.raised THEN SplitRaised
        ELSE IF rat[1] + rat[2] = 0 THEN SplitRaised
        ELSE IF rat[2] > 0 /\ stage1.train # <<>>
             THEN SecondStage(n, groups, stage1.train, stage1.test,
                              rat[2], rat[1] + rat[2], perm)
             ELSE AssignSplits(n, stage1.train, <<>>, stage1.test)

\* split_data of 03_preprocess.py:135-200.
SplitData03(recs, rat, gb, perm) ==
    LET n == Len(recs)
        groups == [i \in 1..n |-> ExtractGroupKey(recs[i], gb)]
        stage1 == IF rat[3] > 0
                  THEN GroupShuffleSplit(groups, rat[3], 100, perm)
                  ELSE [raised |-> FALSE, train |-> Identity(n), test |-> <<>>]
    IN  IF stage1.raised THEN SplitRaised
        ELSE IF rat[1] + rat[2] = 0 THEN SplitRaised   \* ZeroDivisionError, line 176
        ELSE IF rat[2] > 0
             THEN SecondStage(n, groups, stage1.train, stage1.test,
                              rat[2], rat[1] + rat[2], perm)
             ELSE AssignSplits(n, stage1.train, <<>>, stage1.test)

\* split_data of 02_prepare_data.py:90-135.
SplitData02(recs, rat, gb, perm) ==
    LET n == Len(recs)
        groups == [i \in 1..n |-> ExtractGroupKey(recs[i], gb)]
        stage1 == IF rat[3] > 0
                  THEN GroupShuffleSplit(groups, rat[3], 100, perm)
                  ELSE [raised |-> FALSE, train |-> Identity(n), test |-> <<>>]
    IN  IF stage1.raised THEN SplitRaised
        ELSE IF rat[1] + rat[2] > 0 /\ rat[2] > 0 /\ Len(stage1.train) > 0
             THEN SecondStage(n, groups, stage1.train, stage1.test,
                              rat[2], rat[1] + rat[2], perm)
             ELSE AssignSplits(n, stage1.train, <<>>, stage1.test)

(***************************************************************************)
(* SpecSplit: one call of split_data on a manifest.                        *)
(***************************************************************************)
\* Manifest records the lists are drawn from.
Pool ==
    << [id |-> <<"0", "a", "1">>, meta |-> None],
       [id |-> <<"1", "a", "2">>, meta |-> None],
       [id |-> <<"2", "b", "1">>, meta |-> None],
       [id |-> <<"3", "b", "2">>, meta |-> Some([camera_id |-> [int |-> 3]])],
       [id |-> <<"x">>, meta |-> Some([track_id |-> [str |-> <<"a">>]])],
       [id |-> <<"c">>, meta |-> None] >>

RatioChoices ==
    { <<70, 15, 15>>, <<80, 20, 0>>, <<100, 0, 0>>, <<60, 0, 40>>, <<0, 0, 100>> }

GroupByChoices == {None, Some("camera_id"), Some("track_id")}

\* The members of a set of positions in ascending order.
RECURSIVE SortedIdx(_)
SortedIdx(S) ==
    IF S = {} THEN <<>>
    ELSE LET m == CHOOSE x \in S : \A y \in S : x <= y
         IN  <<m>> \o SortedIdx(S \ {m})

Perms(n) == {f \in [1..n -> 1..n] : \A i, j \in 1..n : f[i] = f[j] => i = j}

\* The sub-lists of Pool with at most MaxRecords records.
RecordLists ==
    { [k \in 1..Cardinality(S) |-> Pool[SortedIdx(S)[k]]] :
        S \in {T \in SUBSET (1..Len(Pool)) : Cardinality(T) <= MaxRecords} }

InitSplit ==
    /\ early_stopping = EarlyStopping__init__(0, 0, "max")
    /\ metric_val = None
    /\ n_calls = 0
    /\ streak = 0
    /\ TrainIdle
    /\ StudyOff
    /\ LossIdle
    /\ FactoryIdle
    /\ WrapperIdle
    /\ records \in RecordLists
    /\ ratios \in RatioChoices
    /\ group_by \in GroupByChoices
    /\ LET n1 == Cardinality({ExtractGroupKey(records[i], group_by) :
                                 i \in 1..Len(records)})
           n2 == n1 - CeilDiv(ratios[3] * n1, 100)
       IN  \E p1 \in Perms(n1), p2 \in Perms(IF n2 > 0 THEN n2 ELSE 0) :
              rng = [n \in 1..MaxRecords |->
                       IF n = n1 THEN p1 ELSE IF n = n2 THEN p2 ELSE Identity(n)]
    /\ split_out = None
    /\ group_keys = None
    /\ split_history = <<>>

\* Mutant: random_state is left out, so the splitter draws from numpy's
\* global generator, whose state the earlier draws of the process moved on.
GlobalStatePermutation(perm, draws) ==
    IF draws = 0 THEN perm
    ELSE [n \in DOMAIN perm |-> [k \in 1..n |-> perm[n][n + 1 - k]]]

\* GroupShuffleSplit(..., random_state=seed).split(): check_random_state(seed)
\* builds a new RandomState(seed) in every split() call, so the permutation
\* drawn does not depend on the draws made before.
RandomStatePermutation(perm, draws) == perm

\* split_data of 03_preprocess.py called with (records, ratios, group_by, seed).
DoSplitData03 ==
    /\ split_out' = Some(SplitData03(records, ratios, group_by,
                            RandomStatePermutation(rng, Len(split_history))))
    /\ group_keys' = Some([i \in 1..Len(records) |-> ExtractGroupKey(records[i], group_by)])
    /\ split_history' = Append(split_history,
                               [script |-> "03_preprocess", out |-> Get(split_out')])
    /\ UNCHANGED <<esVars, trainVars, studyVars, lossVars, factoryVars, wrapperVars, records, ratios, group_by, rng>>

\* split_data of 02_prepare_data.py called with (records, ratios, group_by, seed).
DoSplitData02 ==
    /\ split_out' = Some(SplitData02(records, ratios, group_by,
                            RandomStatePermutation(rng, Len(split_history))))
    /\ group_keys' = Some([i \in 1..Len(records) |-> ExtractGroupKey(records[i], group_by)])
    /\ split_history' = Append(split_history,
                               [script |-> "02_prepare_data", out |-> Get(split_out')])
    /\ UNCHANGED <<esVars, trainVars, studyVars, lossVars, factoryVars, wrapperVars, records, ratios, group_by, rng>>

\* python 03_preprocess.py: split_data(records, ratios, group_by, seed).
CallSplitData03 ==
    /\ IsNone(split_out)
    /\ DoSplitData03

\* python 02_prepare_data.py: split_data(records, ratios, group_by, seed).
CallSplitData02 ==
    /\ IsNone(split_out)
    /\ DoSplitData02

NextSplit ==
    \/ CallSplitData03
    \/ CallSplitData02

SpecSplit == InitSplit /\ [][NextSplit]_vars

(***************************************************************************)
(* SpecResplit: split_data is called, and then called once more in the     *)
(* same process with the same records, ratios, group_by and seed.          *)
(***************************************************************************)
InitResplit ==
    /\ InitSplit
    /\ ratios \in {<<70, 15, 15>>, <<80, 20, 0>>}

RepeatSplitData03 ==
    /\ Len(split_history) = 1
    /\ DoSplitData03

RepeatSplitData02 ==
    /\ Len(split_history) = 1
    /\ DoSplitData02

NextResplit ==
    \/ CallSplitData03
    \/ CallSplitData02
    \/ RepeatSplitData03
    \/ RepeatSplitData02

SpecResplit == InitResplit /\ [][NextResplit]_vars

Returned == ~IsNone(split_out) /\ ~Get(split_out).raised

PartitionsOf(key) ==
    {Get(split_out).split[i] :
        i \in {j \in 1..Len(records) : ExtractGroupKey(records[j], group_by) = key}}

\* C1: after split_data returns, no group key (as extract_group_key computes
\* it) has records in more than one of train, val, test.
NoLeakage ==
    Returned =>
        \A i, j \in 1..Len(records) :
            ExtractGroupKey(records[i], group_by) = ExtractGroupKey(records[j], group_by)
                => Get(split_out).split[i] = Get(split_out).split[j]

\* A returned three-way split over camera groups, one of them with more than
\* one record.
NoLeakageWitness ==
    /\ Returned
    /\ group_by = Some("camera_id")
    /\ Range(Get(split_out).split) = {"train", "val", "test"}
    /\ \E i, j \in 1..Len(records) :
          /\ i # j
          /\ ExtractGroupKey(records[i], group_by) = ExtractGroupKey(records[j], group_by)

\* C11: with all three ratios positive, split_data called on a non-empty
\* manifest does not raise, however few distinct groups there are (1 or 2
\* included): it returns a split for every record.
SmallGroupCountDoesNotRaise ==
    (~IsNone(split_out) /\ Len(records) >= 1
        /\ ratios[1] > 0 /\ ratios[2] > 0 /\ ratios[3] > 0) =>
        /\ ~Get(split_out).raised
        /\ Len(Get(split_out).split) = Len(records)

\* C22: the group key split_data computes for a record is the record id
\* when group_by is None; else the string of meta[group_by] when the record
\* has it; else, for group_by = "camera_id" and an id of at least two
\* "_"-separated tokens, the second token; else the record id.
GroupKeyPrecedence ==
    ~IsNone(group_keys) =>
        /\ Len(Get(group_keys)) = Len(records)
        /\ \A i \in 1..Len(records) :
              LET r == records[i]
                  key == Get(group_keys)[i]
                  has == ~IsNone(group_by) /\ ~IsNone(r.meta)
                         /\ Get(group_by) \in DOMAIN Get(r.meta)
              IN  /\ IsNone(group_by) => key = r.id
                  /\ has /\ "str" \in DOMAIN Get(r.meta)[Get(group_by)] =>
                        key = Get(r.meta)[Get(group_by)].str
                  /\ has /\ "int" \in DOMAIN Get(r.meta)[Get(group_by)] =>
                        key = <<Tokens[Get(r.meta)[Get(group_by)].int + 1]>>
                  /\ (~IsNone(group_by) /\ ~has /\ group_by = Some("camera_id")
                        /\ Len(r.id) >= 2) => key = <<r.id[2]>>
                  /\ (~IsNone(group_by) /\ ~has
                        /\ ~(group_by = Some("camera_id") /\ Len(r.id) >= 2)) =>
                        key = r.id

\* A call with group_by = "camera_id" on a manifest that has a record with
\* the meta field (whose id names another camera), one keyed by its id's
\* second token and one that falls back to its id.
GroupKeyPrecedenceWitness ==
    /\ ~IsNone(group_keys)
    /\ group_by = Some("camera_id")
    /\ \E i, j, k \in 1..Len(records) :
          /\ ~IsNone(records[i].meta) /\ "camera_id" \in DOMAIN Get(records[i].meta)
          /\ Len(records[i].id) >= 2
          /\ Get(group_keys)[i] # <<records[i].id[2]>>
          /\ IsNone(records[j].meta) /\ Len(records[j].id) >= 2
          /\ Get(group_keys)[j] = <<records[j].id[2]>>
          /\ Len(records[k].id) = 1 /\ Get(group_keys)[k] = records[k].id

\* C23: after split_data returns there is one split value per input record,
\* in the records' order, and each is one of train, val, test; the records
\* themselves are the ones passed in.
SplitTotality ==
    /\ [](Returned =>
            /\ Len(Get(split_out).split) = Len(records)
            /\ \A i \in 1..Len(records) :
                  Get(split_out).split[i] \in {"train", "val", "test"})
    /\ [][records' = records]_vars

\* A returned split of at least four records that uses all three values.
SplitTotalityWitness ==
    /\ Returned
    /\ Len(records) >= 4
    /\ \E i, j, k \in 1..Len(records) :
          /\ Get(split_out).split[i] = "train"
          /\ Get(split_out).split[j] = "val"
          /\ Get(split_out).split[k] = "test"

\* Number of records whose group key is key.
GroupSize(key) ==
    Cardinality({i \in 1..Len(records) : ExtractGroupKey(records[i], group_by) = key})

\* C24: with ratios 0.7/0.15/0.15 and group_by = "camera_id", on records
\* spread over three camera groups of near-equal size (sizes differing by
\* at most one), whatever the seed, a returned split has at least half of
\* the records in train.
TrainGetsAtLeastHalf ==
    LET keys == {ExtractGroupKey(records[i], group_by) : i \in 1..Len(records)}
    IN  (Returned /\ ratios = <<70, 15, 15>> /\ group_by = Some("camera_id")
            /\ Cardinality(keys) = 3
            /\ \A k1, k2 \in keys : GroupSize(k1) <= GroupSize(k2) + 1) =>
            2 * Cardinality({i \in 1..Len(records) : Get(split_out).split[i] = "train"})
                >= Len(records)

\* C21: with test_ratio = 0 a returned split assigns no record to test:
\* every record, hence every group, is in train or in val.
NoTestWhenTestRatioZero ==
    (Returned /\ ratios[3] = 0) =>
        /\ Len(Get(split_out).split) = Len(records)
        /\ \A i \in 1..Len(records) : Get(split_out).split[i] \in {"train", "val"}

\* A returned split with test_ratio = 0 that has train and val records.
NoTestWhenTestRatioZeroWitness ==
    /\ Returned
    /\ ratios[3] = 0
    /\ Len(records) >= 3
    /\ Range(Get(split_out).split) = {"train", "val"}

(***************************************************************************)
(* Claims about EarlyStopping, checked under SpecES.                       *)
(***************************************************************************)
\* C8: once early_stop is True it stays True after every further call,
\* whatever metric is observed (also one that improves on best_score).
EarlyStopPermanent ==
    [][early_stopping.early_stop => early_stopping'.early_stop]_vars

\* A call made after the stop signal improved on the best score (counter was
\* reset) and the signal is still raised.
EarlyStopPermanentWitness ==
    /\ early_stopping.early_stop
    /\ early_stopping.patience >= 1
    /\ early_stopping.counter = 0

\* C9: an observation after the first is an improvement exactly when
\* score > best_score + delta (strictly); an improvement resets counter and
\* stores score, every other observation (score == best_score + delta too)
\* increments counter and leaves best_score alone.
StrictImprovementRule ==
    [][(n_calls' = n_calls + 1 /\ ~IsNone(early_stopping.best_score)) =>
         LET score == Score(early_stopping.mode, Get(metric_val'))
             best == Get(early_stopping.best_score)
         IN  IF score > best + early_stopping.delta
             THEN /\ early_stopping'.counter = 0
                  /\ early_stopping'.best_score = Some(score)
             ELSE /\ early_stopping'.counter = early_stopping.counter + 1
                  /\ early_stopping'.best_score = early_stopping.best_score]_vars

Float32MinExp == 149

NaN == <<0, 0>>

IsNaN(x) == x[2] = 0

RECURSIVE GCD(_, _)
GCD(a, b) == IF b = 0 THEN a ELSE GCD(b, a % b)

Abs(a) == IF a < 0 THEN 0 - a ELSE a

Rat(n, d) ==
    IF d = 0 THEN NaN
    ELSE LET g == GCD(Abs(n), d) IN <<n \div g, d \div g>>

RAdd(x, y) ==
    IF IsNaN(x) \/ IsNaN(y) THEN NaN
    ELSE LET l == (x[2] \div GCD(x[2], y[2])) * y[2]
         IN  Rat(x[1] * (l \div x[2]) + y[1] * (l \div y[2]), l)

RSub(x, y) == RAdd(x, <<0 - y[1], y[2]>>)

RMul(x, y) ==
    IF IsNaN(x) \/ IsNaN(y) THEN NaN
    ELSE LET g1 == GCD(Abs(x[1]), y[2])
             g2 == GCD(Abs(y[1]), x[2])
         IN  Rat((x[1] \div g1) * (y[1] \div g2), (x[2] \div g2) * (y[2] \div g1))

\* x / y for y >= 0; the only division by 0.0 the weights meet is 0.0 / 0.0.
RDiv(x, y) ==
    IF IsNaN(x) \/ IsNaN(y) \/ (x[1] = 0 /\ y[1] = 0) THEN NaN
    ELSE RMul(x, <<y[2], y[1]>>)

\* x <= y; a comparison with nan is false.
RLeq(x, y) == ~IsNaN(x) /\ ~IsNaN(y) /\ x[1] * y[2] <= y[1] * x[2]

RMin(x, y) == IF RLeq(x, y) THEN x ELSE y

RECURSIVE RSum(_)
RSum(seq) == IF seq = <<>> THEN <<0, 1>> ELSE RAdd(Head(seq), RSum(Tail(seq)))

RECURSIVE Pow(_, _)
Pow(b, e) == IF e = 0 \/ b = 1 THEN 1 ELSE b * Pow(b, e - 1)

\* (1.0 / count) ** tau as a float32, line 99: for count >= 2 and
\* tau > Float32MinExp the power is at most 2 ** -(Float32MinExp + 1),
\* which rounds to 0.0.
InvFreqPow(count, tau) ==
    IF count >= 2 /\ tau > Float32MinExp THEN <<0, 1>>
    ELSE <<1, Pow(count, tau)>>

\* 0.5 * (1 - torch.cos(torch.tensor(t * 3.14159)).item()), line 64, in
\* thousandths, for t = p/q in lowest terms with q <= 7.
CosineCurve ==
    ( <<0, 1>> :> 0 @@ <<1, 7>> :> 50 @@ <<1, 6>> :> 67 @@ <<1, 5>> :> 95 @@
      <<1, 4>> :> 146 @@ <<2, 7>> :> 188 @@ <<1, 3>> :> 250 @@ <<2, 5>> :> 345 @@
      <<3, 7>> :> 389 @@ <<1, 2>> :> 500 @@ <<4, 7>> :> 611 @@ <<3, 5>> :> 655 @@
      <<2, 3>> :> 750 @@ <<5, 7>> :> 812 @@ <<3, 4>> :> 854 @@ <<4, 5>> :> 905 @@
      <<5, 6>> :> 933 @@ <<6, 7>> :> 950 @@ <<1, 1>> :> 1000 )

\* SmoothModulationLoss.__init__(cfg), lines 43-48; modulation_type falls
\* back to "cosine" when cfg has no such key.  Nothing is validated.
SmoothModulationLoss__init__(cfg) ==
    [tau |-> cfg.tau,
     max_epoch |-> cfg.max_epoch,
     modulation_type |-> IF IsNone(cfg.modulation_type) THEN "cosine"
                         ELSE Get(cfg.modulation_type)]

\* Mutant: t is not clamped to 1.
compute_modulation_unclamped(self, ep) ==
    LET t == Rat(ep, Max(self.max_epoch, 1))
    IN  IF self.modulation_type = "linear" THEN t
        ELSE IF self.modulation_type = "cosine"
             THEN Rat(CosineCurve[RMin(t, <<1, 1>>)], 1000)
        ELSE IF self.modulation_type = "step"
             THEN (IF RLeq(<<1, 2>>, t) THEN <<1, 1>> ELSE <<0, 1>>)
        ELSE t

\* SmoothModulationLoss._compute_modulation(epoch), lines 59-69.
compute_modulation(self, ep) ==
    LET t == RMin(Rat(ep, Max(self.max_epoch, 1)), <<1, 1>>)
    IN  IF self.modulation_type = "linear" THEN t
        ELSE IF self.modulation_type = "cosine" THEN Rat(CosineCurve[t], 1000)
        ELSE IF self.modulation_type = "step"
             THEN (IF RLeq(<<1, 2>>, t) THEN <<1, 1>> ELSE <<0, 1>>)
        ELSE t

\* Lines 93-103: the blend of the uniform and the inverse-frequency weights.
BlendedWeights(self, counts, modulation) ==
    LET n == Len(counts)
        weights == [c \in 1..n |-> InvFreqPow(Max(counts[c], 1), self.tau)]
        total == RSum(weights)
        uniform == <<1, n>>
        rest == RSub(<<1, 1>>, modulation)
    IN  [c \in 1..n |->
            RAdd(RMul(rest, uniform), RMul(modulation, RDiv(weights[c], total)))]

\* SmoothModulationLoss._compute_class_weights(class_counts, modulation,
\* device), lines 87-108.
compute_class_weights(self, counts, modulation) ==
    LET weights == BlendedWeights(self, counts, modulation)
        mean == RDiv(RSum(weights), <<Len(counts), 1>>)
    IN  [c \in 1..Len(counts) |-> RDiv(weights[c], mean)]

\* SmoothModulationLoss.forward(logits, targets, epoch=, class_counts=),
\* lines 128-139: the per-sample weights.  weights[targets] raises
\* IndexError for a target that is not an index of weights.
forward(self, targets, ep, counts) ==
    LET modulation == compute_modulation(self, ep)
        weights == IF IsNone(counts) THEN <<>>
                   ELSE compute_class_weights(self, Get(counts), modulation)
    IN  [epoch |-> ep, targets |-> targets, modulation |-> modulation,
         weights |-> weights,
         raised |-> ~IsNone(counts) /\ \E i \in 1..Len(targets) : targets[i] >= Len(weights),
         weight_per_sample |->
            IF IsNone(counts) THEN [i \in 1..Len(targets) |-> <<1, 1>>]
            ELSE IF \E i \in 1..Len(targets) : targets[i] >= Len(weights) THEN <<>>
            ELSE [i \in 1..Len(targets) |-> weights[targets[i] + 1]]]

(***************************************************************************)
(* SpecLoss: a loss object is built from a configuration and called with   *)
(* the class counts of the training set at any epochs.                     *)
(***************************************************************************)
\* cfg["tau"] and the sample counts of a class that the calls are made with.
\* tau is any number the configuration file holds.
TauChoices == {0, 1, 2, 200}
CountValues == {0, 1, 3}

ModulationTypes == {None, Some("linear"), Some("cosine"), Some("step"), Some("exponential")}

\* The curves the docstring of __init__ (line 40) names.
KnownCurves == {"linear", "cosine", "step"}

\* ManifestDataset.get_class_counts (dataset.py:91-100): one count per class
\* index up to the largest label of the training set; a class in between
\* that has no sample has count 0.
ClassCountChoices ==
    UNION {[1..n -> CountValues] : n \in 1..MaxClasses}

InitLoss ==
    /\ early_stopping = EarlyStopping__init__(0, 0, "max")
    /\ metric_val = None
    /\ n_calls = 0
    /\ streak = 0
    /\ TrainIdle
    /\ StudyOff
    /\ SplitIdle
    /\ FactoryIdle
    /\ WrapperIdle
    /\ class_counts \in {None} \cup {Some(c) : c \in ClassCountChoices}
    /\ criterion = None
    /\ forward_out = None

\* LossFactory.create("smooth_modulation", cfg): SmoothModulationLoss(cfg).
ConstructLoss ==
    /\ IsNone(criterion)
    /\ \E tau \in TauChoices, max_epoch \in 0..MaxMaxEpoch, mt \in ModulationTypes :
          criterion' = Some(SmoothModulationLoss__init__(
                          [tau |-> tau, max_epoch |-> max_epoch, modulation_type |-> mt]))
    /\ UNCHANGED <<esVars, trainVars, studyVars, splitVars, factoryVars, wrapperVars, class_counts, forward_out>>

\* criterion(logits, targets, class_counts=class_counts, epoch=epoch) for a
\* batch of one sample of any label.
ForwardCall ==
    /\ ~IsNone(criterion)
    /\ \E epoch_arg \in 0..MaxLossEpoch, label \in 0..MaxClasses :
          forward_out' = Some(forward(Get(criterion), <<label>>, epoch_arg, class_counts))
    /\ UNCHANGED <<esVars, trainVars, studyVars, splitVars, factoryVars, wrapperVars, class_counts, criterion>>

NextLoss ==
    \/ ConstructLoss
    \/ ForwardCall

SpecLoss == InitLoss /\ [][NextLoss]_vars

(***************************************************************************)
(* Claims about SmoothModulationLoss, checked under SpecLoss.              *)
(***************************************************************************)
\* C16: a SmoothModulationLoss with a modulation_type other than "linear",
\* "cosine" or "step" is never constructed (construction raises), so no
\* modulation factor is ever computed for such a type with another curve.
UnknownCurveFailsFast ==
    /\ ~IsNone(criterion) => Get(criterion).modulation_type \in KnownCurves
    /\ ~IsNone(forward_out) => Get(criterion).modulation_type \in KnownCurves

\* C18: with class_counts given, forward does not raise whatever the target
\* label is, an index >= len(class_counts) included; a target whose class
\* has no count (count 0 or no entry) gets the weight of a class of count 1,
\* the largest weight.
UncoveredClassLookup ==
    (~IsNone(forward_out) /\ ~IsNone(class_counts)) =>
        LET out == Get(forward_out)
            counts == Get(class_counts)
        IN  /\ ~out.raised
            /\ \A i \in 1..Len(out.targets) :
                  (out.targets[i] >= Len(counts) \/ counts[out.targets[i] + 1] = 0) =>
                      \A c \in 1..Len(counts) :
                          RLeq(out.weights[c], out.weight_per_sample[i])

\* C19: for every non-empty class_counts, epoch, tau and curve the weights
\* _compute_class_weights returns sum to the number of classes (mean 1), and
\* with modulation factor 0 every weight is 1.
WeightNormalization ==
    (~IsNone(forward_out) /\ ~IsNone(class_counts)) =>
        LET out == Get(forward_out)
            n == Len(Get(class_counts))
        IN  /\ Len(out.weights) = n
            /\ RSum(out.weights) = <<n, 1>>
            /\ out.modulation = <<0, 1>> =>
                  \A c \in 1..n : out.weights[c] = <<1, 1>>

\* C20: for a known curve and max_epoch >= 1 the modulation factor of every
\* call is in [0, 1]; "linear" gives epoch/max_epoch clamped to 1, "step"
\* gives 0 while epoch < max_epoch/2 and 1 from there on; and of two calls
\* on the same object the one with the larger epoch has the factor that is
\* not smaller.
ModulationFactor ==
    /\ [](~IsNone(forward_out) /\ Get(criterion).modulation_type \in KnownCurves
            /\ Get(criterion).max_epoch >= 1 =>
            LET out == Get(forward_out)
                self == Get(criterion)
            IN  /\ RLeq(<<0, 1>>, out.modulation)
                /\ RLeq(out.modulation, <<1, 1>>)
                /\ self.modulation_type = "linear" =>
                      out.modulation = (IF out.epoch >= self.max_epoch THEN <<1, 1>>
                                        ELSE Rat(out.epoch, self.max_epoch))
                /\ self.modulation_type = "step" =>
                      out.modulation = (IF 2 * out.epoch < self.max_epoch
                                        THEN <<0, 1>> ELSE <<1, 1>>))
    /\ [][(~IsNone(forward_out) /\ ~IsNone(forward_out')
            /\ Get(criterion).modulation_type \in KnownCurves
            /\ Get(criterion).max_epoch >= 1
            /\ Get(forward_out).epoch <= Get(forward_out').epoch) =>
            RLeq(Get(forward_out).modulation, Get(forward_out').modulation)]_vars

\* A "step" object called exactly at half of max_epoch: the factor has
\* switched to 1 before the end of the schedule.
ModulationFactorWitness ==
    /\ ~IsNone(forward_out)
    /\ Get(criterion).modulation_type = "step"
    /\ Get(criterion).max_epoch >= 2
    /\ 2 * Get(forward_out).epoch = Get(criterion).max_epoch
    /\ Get(forward_out).modulation = <<1, 1>>


(***************************************************************************)
(* The factories  (src/src/core/factories.py)                              *)
(*                                                                         *)
(* A dict is the sequence of its [name, cls] items in insertion order.  A  *)
(* registered class is any callable; calling it is modelled as building    *)
(* the instance [cls, args] from the arguments it is given.                *)
(***************************************************************************)
ComponentNames == {"a", "b"}
ComponentClasses == {"ClassA", "ClassB"}
Cfgs == {"cfg1", "cfg2"}
NumClassesChoices == {2, 3}

\* name in d
DictHas(d, name) == \E i \in 1..Len(d) : d[i].name = name

\* d[name], for a name in d
DictGet(d, name) == d[CHOOSE i \in 1..Len(d) : d[i].name = name].cls

\* d[name] = cls: a key d already holds keeps its position.
DictSet(d, name, cls) ==
    IF DictHas(d, name)
    THEN [i \in 1..Len(d) |-> IF d[i].name = name THEN [name |-> name, cls |-> cls] ELSE d[i]]
    ELSE Append(d, [name |-> name, cls |-> cls])

\* Mutant: one _registry dict, defined on a common base class, is shared by
\* all the factories.
FactoryRegisterShared(reg, f, name, cls) ==
    [g \in DOMAIN reg |-> DictSet(reg[g], name, cls)]

\* <Factory>.register(name, cls): cls._registry[name] = cls, on the factory's
\* own class attribute.
FactoryRegister(reg, f, name, cls) ==
    [reg EXCEPT ![f] = DictSet(reg[f], name, cls)]

\* <Factory>.available(): list(cls._registry.keys())
FactoryAvailable(reg, f) == [i \in 1..Len(reg[f]) |-> reg[f][i].name]

\* <Factory>.create(name, cfg) and StrategyFactory.create(name, cfg,
\* num_classes): ValueError for a name not in the registry, otherwise the
\* registered class called with cfg (StrategyFactory: with cfg, num_classes).
FactoryCreate(reg, f, name, cfg, num_classes) ==
    IF ~DictHas(reg[f], name)
    THEN [factory |-> f, name |-> name, cfg |-> cfg, num_classes |-> num_classes,
          raised |-> Some("ValueError"), instance |-> None]
    ELSE [factory |-> f, name |-> name, cfg |-> cfg, num_classes |-> num_classes,
          raised |-> None,
          instance |-> Some([cls |-> DictGet(reg[f], name),
                             args |-> IF f = "StrategyFactory"
                                      THEN <<cfg, Get(num_classes)>> ELSE <<cfg>>])]

\* Some module calls <Factory>.register(name, cls).
Register ==
    /\ Len(register_log) < MaxRegisters
    /\ \E f \in Factories, name \in ComponentNames, cls \in ComponentClasses :
          /\ registry' = FactoryRegister(registry, f, name, cls)
          /\ register_log' = Append(register_log, [factory |-> f, name |-> name, cls |-> cls])
    /\ UNCHANGED <<esVars, trainVars, studyVars, splitVars, lossVars, wrapperVars, factory_out>>

\* Some module calls <Factory>.create(name, cfg) on a factory other than
\* StrategyFactory.
Create ==
    /\ \E f \in Factories \ {"StrategyFactory"}, name \in ComponentNames, cfg \in Cfgs :
          factory_out' = Some(FactoryCreate(registry, f, name, cfg, None))
    /\ UNCHANGED <<esVars, trainVars, studyVars, splitVars, lossVars, wrapperVars,
                   registry, register_log>>

\* Some module calls StrategyFactory.create(name, cfg, num_classes).
CreateStrategy ==
    /\ \E name \in ComponentNames, cfg \in Cfgs, nc \in NumClassesChoices :
          factory_out' = Some(FactoryCreate(registry, "StrategyFactory", name, cfg, Some(nc)))
    /\ UNCHANGED <<esVars, trainVars, studyVars, splitVars, lossVars, wrapperVars,
                   registry, register_log>>

(***************************************************************************)
(* SpecFactory: any sequence of register and create calls on the five      *)
(* factories, starting from the classes as defined.                        *)
(***************************************************************************)
InitFactory ==
    /\ early_stopping = EarlyStopping__init__(0, 0, "max")
    /\ metric_val = None
    /\ n_calls = 0
    /\ streak = 0
    /\ TrainIdle
    /\ StudyOff
    /\ SplitIdle
    /\ LossIdle
    /\ FactoryIdle
    /\ WrapperIdle

NextFactory ==
    \/ Register
    \/ Create
    \/ CreateStrategy

SpecFactory == InitFactory /\ [][NextFactory]_vars

(***************************************************************************)
(* Claims about the factories, checked under SpecFactory.                  *)
(***************************************************************************)
\* The register calls made so far on factory f under name.
RegisterCalls(f, name) ==
    {i \in 1..Len(register_log) :
        register_log[i].factory = f /\ register_log[i].name = name}

\* The class of the latest of them.
LastRegistered(f, name) ==
    register_log[CHOOSE i \in RegisterCalls(f, name) :
                    \A j \in RegisterCalls(f, name) : j <= i].cls

\* C25: after any sequence of register and create calls, create(name, cfg)
\* on a factory succeeds exactly when name has been registered on that
\* factory; it then returns an instance of the class most recently
\* registered there under name, built from cfg, and name is in available();
\* otherwise it raises ValueError; in both cases every registry is left as
\* it was.  A register call changes no registry but the one of the factory
\* it is made on.
FactoryRegistryContract ==
    /\ [][factory_out' # factory_out =>
            LET o == Get(factory_out')
            IN  /\ registry' = registry
                /\ IF RegisterCalls(o.factory, o.name) # {}
                   THEN /\ o.raised = None
                        /\ ~IsNone(o.instance)
                        /\ Get(o.instance).cls = LastRegistered(o.factory, o.name)
                        /\ Get(o.instance).args[1] = o.cfg
                        /\ \E i \in 1..Len(FactoryAvailable(registry', o.factory)) :
                              FactoryAvailable(registry', o.factory)[i] = o.name
                   ELSE /\ o.raised = Some("ValueError")
                        /\ o.instance = None]_vars
    /\ [][register_log' # register_log =>
            \A f \in Factories :
                f # register_log'[Len(register_log')].factory => registry'[f] = registry[f]]_vars

\* C25 witness: a name was registered twice on one factory, with different
\* classes, and create(name, cfg) on that factory has returned an instance.
FactoryRegistryContractWitness ==
    /\ ~IsNone(factory_out)
    /\ Get(factory_out).raised = None
    /\ \E i, j \in RegisterCalls(Get(factory_out).factory, Get(factory_out).name) :
          i < j /\ register_log[i].cls # register_log[j].cls


(***************************************************************************)
(* train_wrapper()  (src/07_optimize.py, src/05_optimize.py) and the       *)
(* components train() builds from its config through VCRStrategy           *)
(* (src/04_train_mlflow.py, src/06_train.py, src/src/strategies/vcr.py).   *)
(*                                                                         *)
(* lr and weight_decay are counted in units of 1e-4.  A dict section of    *)
(* the config is None when the config has no such key.  The keys that the  *)
(* data loaders read (batch_size, image_size, device,                      *)
(* use_weighted_sampler) are left out.                                     *)
(***************************************************************************)
Optional(S) == {None} \cup {Some(v) : v \in S}

\* The keyword arguments objective() passes to train_fn: the sampled
\* hyperparameters merged over the fixed ones; a name that neither lists is
\* not passed.
HyperparameterSets ==
    [backbone : Optional({"resnet50", "efficientnet_b0"}),
     fusion : Optional({"msff", "simple_concat"}),
     loss_fn : Optional({"smooth_modulation", "focal"}),
     lr : Optional({1, 10}),
     weight_decay : Optional({1, 100}),
     epochs : Optional({10, 50})]

\* kwargs.get(name, default)
OrDefault(opt, default) == IF IsNone(opt) THEN default ELSE Get(opt)

\* config.get(section, {}).get(key, default)
SectionGet(section, key, default) ==
    IF IsNone(section) THEN default
    ELSE IF key \in DOMAIN Get(section) THEN Get(section)[key] ELSE default

\* The "synthetic config dict" of train_wrapper: every value under one key.
WrapperSection(kwargs, default_epochs) ==
    [strategy |-> "vcr",
     backbone |-> OrDefault(kwargs.backbone, "resnet50"),
     fusion |-> OrDefault(kwargs.fusion, "msff"),
     loss |-> OrDefault(kwargs.loss_fn, "smooth_modulation"),
     epochs |-> OrDefault(kwargs.epochs, default_epochs),
     lr |-> OrDefault(kwargs.lr, 1),
     weight_decay |-> OrDefault(kwargs.weight_decay, 1)]

\* 07_optimize.py: config = {"train": {...}}
TrainWrapperConfig07(kwargs) ==
    [model |-> None, loss |-> None, training |-> None,
     train |-> Some(WrapperSection(kwargs, 30))]

\* 05_optimize.py: config = {"training": {...}}
TrainWrapperConfig05(kwargs) ==
    [model |-> None, loss |-> None, train |-> None,
     training |-> Some(WrapperSection(kwargs, 20))]

\* VCRStrategy.build_model: the arguments VCRModel is built with.
build_model(config) ==
    [backbone_name |-> SectionGet(config.model, "backbone", "resnet50"),
     fusion_name |-> SectionGet(config.model, "fusion", "msff")]

\* VCRStrategy.configure_loss: the loss name and the max_epoch of its cfg.
configure_loss(config) ==
    [name |-> SectionGet(config.loss, "name", "smooth_modulation"),
     max_epoch |-> SectionGet(config.training, "epochs", 50)]

\* VCRStrategy.configure_optimizers: AdamW(lr, weight_decay) and
\* CosineAnnealingLR(T_max=epochs).
configure_optimizers(config) ==
    [lr |-> SectionGet(config.training, "lr", 1),
     weight_decay |-> SectionGet(config.training, "weight_decay", 1),
     T_max |-> SectionGet(config.training, "epochs", 50)]

\* objective() calls train_wrapper of 07_optimize.py with some keyword
\* arguments; train_wrapper builds its config and calls train().
CallTrainWrapper07 ==
    /\ IsNone(hyperparams)
    /\ \E kwargs \in HyperparameterSets :
          /\ hyperparams' = Some(kwargs)
          /\ wrapper_config' = Some([script |-> "07_optimize",
                                     config |-> TrainWrapperConfig07(kwargs)])
    /\ UNCHANGED <<esVars, trainVars, studyVars, splitVars, lossVars, factoryVars, components>>

\* The same for train_wrapper of 05_optimize.py.
CallTrainWrapper05 ==
    /\ IsNone(hyperparams)
    /\ \E kwargs \in HyperparameterSets :
          /\ hyperparams' = Some(kwargs)
          /\ wrapper_config' = Some([script |-> "05_optimize",
                                     config |-> TrainWrapperConfig05(kwargs)])
    /\ UNCHANGED <<esVars, trainVars, studyVars, splitVars, lossVars, factoryVars, components>>

\* train() of 04_train_mlflow.py, which 07_optimize.py loads: the strategy
\* builds the model, the optimizer and scheduler and the loss from the
\* config, and the epoch count is read from config["train"].
BuildComponents04 ==
    /\ ~IsNone(wrapper_config)
    /\ Get(wrapper_config).script = "07_optimize"
    /\ IsNone(components)
    /\ LET config == Get(wrapper_config).config
       IN  components' = Some([model |-> build_model(config),
                               optimizer |-> configure_optimizers(config),
                               criterion |-> configure_loss(config),
                               epochs |-> SectionGet(config.train, "epochs", 50)])
    /\ UNCHANGED <<esVars, trainVars, studyVars, splitVars, lossVars, factoryVars,
                   hyperparams, wrapper_config>>

\* 05_optimize.py loads its train() from 06_train_mlflow.py, a file the
\* repository does not hold; train() of 06_train.py is the script that reads
\* the "training" key 05_optimize.py writes.  It builds the components the
\* same way, with the epoch count read from config["training"].
BuildComponents06 ==
    /\ ~IsNone(wrapper_config)
    /\ Get(wrapper_config).script = "05_optimize"
    /\ IsNone(components)
    /\ LET config == Get(wrapper_config).config
       IN  components' = Some([model |-> build_model(config),
                               optimizer |-> configure_optimizers(config),
                               criterion |-> configure_loss(config),
                               epochs |-> SectionGet(config.training, "epochs", 50)])
    /\ UNCHANGED <<esVars, trainVars, studyVars, splitVars, lossVars, factoryVars,
                   hyperparams, wrapper_config>>

(***************************************************************************)
(* SpecWrapper: one call of train_wrapper by the objective, up to the      *)
(* point where train() has built the components of the run.                *)
(***************************************************************************)
InitWrapper ==
    /\ early_stopping = EarlyStopping__init__(0, 0, "max")
    /\ metric_val = None
    /\ n_calls = 0
    /\ streak = 0
    /\ TrainIdle
    /\ StudyOff
    /\ SplitIdle
    /\ LossIdle
    /\ FactoryIdle
    /\ WrapperIdle

NextWrapper ==
    \/ CallTrainWrapper07
    \/ CallTrainWrapper05
    \/ BuildComponents04
    \/ BuildComponents06

SpecWrapper == InitWrapper /\ [][NextWrapper]_vars

(***************************************************************************)
(* Claims about train_wrapper, checked under SpecWrapper.                  *)
(***************************************************************************)
\* C28: the model, loss and optimizer that the training run builds use
\* every backbone, fusion, loss_fn, lr, weight_decay and epochs value that
\* the trial passed, not a default.
SampledHyperparametersUsed ==
    ~IsNone(components) =>
        LET kwargs == Get(hyperparams)
            c == Get(components)
        IN  /\ ~IsNone(kwargs.backbone) => c.model.backbone_name = Get(kwargs.backbone)
            /\ ~IsNone(kwargs.fusion) => c.model.fusion_name = Get(kwargs.fusion)
            /\ ~IsNone(kwargs.loss_fn) => c.criterion.name = Get(kwargs.loss_fn)
            /\ ~IsNone(kwargs.lr) => c.optimizer.lr = Get(kwargs.lr)
            /\ ~IsNone(kwargs.weight_decay) =>
                  c.optimizer.weight_decay = Get(kwargs.weight_decay)
            /\ ~IsNone(kwargs.epochs) =>
                  /\ c.epochs = Get(kwargs.epochs)
                  /\ c.optimizer.T_max = Get(kwargs.epochs)
                  /\ c.criterion.max_epoch = Get(kwargs.epochs)

====
